---- MODULE Spec2Model ----
(***************************************************************************)
(* A model of the parlay machinery of stats-sync:                          *)
(*   - ParlayBuilder (src/src/services/parlay_builder.py), stepped one     *)
(*     selection attempt at a time                        (SpecBuilder);  *)
(*   - find_parlay_combination (src/parlay-optimizer/utils/odds_math.py),  *)
(*     stepped one enumerated subset at a time            (SpecSearch);   *)
(*   - ParlayService's cache under interleaved coroutines                  *)
(*     (src/src/services/parlay_service.py)               (SpecService).  *)
(* Decimal odds are exact rationals <<numerator, denominator>>; the odds   *)
(* used are those whose decimal value is a dyadic rational, for which      *)
(* Python's float arithmetic is exact too.  Confidence scores and hit      *)
(* rates are whole percents.                                               *)
(***************************************************************************)
EXTENDS Integers, Sequences, FiniteSets, TLC

VARIABLES
    \* ---- ParlayBuilder.build_parlays
    props,        \* the props argument of build_parlays
    tierArg,      \* the tier argument ("FREE", "PREMIUM", "GOAT" or "None")
    pc,           \* position inside build_parlays
    tiersLeft,    \* tiers_to_build not yet built
    curTier,      \* tier_type of the running _build_tier_parlays
    eligible,     \* eligible_props of the running _build_tier_parlays
    i,            \* loop index of _build_tier_parlays (range(max_parlays))
    attempt,      \* attempts already made by the running _generate_single_parlay
    genResult,    \* what the last _generate_single_parlay returned
    parlays,      \* parlays of the running _build_tier_parlays
    allParlays,   \* all_parlays of build_parlays
    genCalls,     \* history: _generate_single_parlay calls made so far
    firstOk,      \* history: first attempt of this call that met both thresholds
    lastSelected, \* history: len(selected_props) of the last attempt of this call
    tierDone,     \* history: what each finished _build_tier_parlays returned
    \* ---- find_parlay_combination
    fTarget, fPool, fMaxLegs, fSorted, fPc, fNumLegs, fCombo,
    fBestDiff, fBest, fEnumerated,
    \* ---- ParlayService
    cache,        \* parlay_cache: cache key -> list of parlays
    lastRefresh,  \* last_refresh: sport -> time of the last refresh write
    stats,        \* the stats counters
    procs,        \* the calls in flight: call id -> its local state
    nextGen,      \* calls started so far (the id of the last one)
    genLog,       \* history: cache key -> the list generated for it last
    returned,     \* history: what the call that completed last returned
    completed,    \* history: the completed calls, in order of completion
    refreshed,    \* history: sport -> the list its last refresh stored, while no
                  \* refresh has started and no cleanup has run since
    \* ---- one provider fetch
    fetch,        \* the running fetch: provider, arguments, position, result
    \* ---- one call of a pure function
    calc,         \* the call: function, arguments, position, outcome
    \* ---- SchedulerService
    sched,        \* is_running, the calls made on self.scheduler, the last call
    run           \* the running _refresh_and_notify: position and what it did

builderVars == <<props, tierArg, pc, tiersLeft, curTier, eligible, i, attempt,
                 genResult, parlays, allParlays, genCalls, firstOk, lastSelected,
                 tierDone>>
searchVars == <<fTarget, fPool, fMaxLegs, fSorted, fPc, fNumLegs, fCombo,
                fBestDiff, fBest, fEnumerated>>
serviceVars == <<cache, lastRefresh, stats, procs, nextGen, genLog, returned,
                 completed, refreshed>>
otherVars == <<fetch, calc, sched, run>>
vars == <<builderVars, searchVars, serviceVars, otherVars>>

None == "None"

(***************************************************************************)
(* Exact rationals                                                         *)
(***************************************************************************)
Abs(x) == IF x < 0 THEN -x ELSE x

Min2(a, b) == IF a < b THEN a ELSE b

RECURSIVE Gcd(_, _)
Gcd(a, b) == IF b = 0 THEN a ELSE Gcd(b, a % b)

Rat(n, d) == LET g == Gcd(Abs(n), Abs(d)) IN <<n \div g, d \div g>>

RatMul(x, y) == Rat(x[1] * y[1], x[2] * y[2])

RatLess(x, y) == x[1] * y[2] < y[1] * x[2]

RatLeq(x, y) == x[1] * y[2] <= y[1] * x[2]

RatAbsDiff(x, y) == Rat(Abs(x[1] * y[2] - y[1] * x[2]), x[2] * y[2])

RatOne == <<1, 1>>

(***************************************************************************)
(* ParlayBuilder: tier table, selection, legs, odds                        *)
(***************************************************************************)
Tiers == <<"FREE", "PREMIUM", "GOAT">>

TierSet == {"FREE", "PREMIUM", "GOAT"}

FreeMinConfidence == 45

FreeTargetPayout == 10

FreeMaxLegs == 6

PremiumMinConfidence == 55

PremiumTargetPayout == 25

PremiumMaxLegs == 7

GoatMinConfidence == 65

GoatTargetPayout == 50

GoatMaxLegs == 8

\* self.tier_requirements
tier_requirements(tier) ==
    CASE tier = "FREE" ->
           [min_confidence |-> FreeMinConfidence, target_payout |-> FreeTargetPayout,
            max_legs |-> FreeMaxLegs, conservative_bias |-> TRUE]
      [] tier = "PREMIUM" ->
           [min_confidence |-> PremiumMinConfidence, target_payout |-> PremiumTargetPayout,
            max_legs |-> PremiumMaxLegs, conservative_bias |-> FALSE]
      [] OTHER ->
           [min_confidence |-> GoatMinConfidence, target_payout |-> GoatTargetPayout,
            max_legs |-> GoatMaxLegs, conservative_bias |-> FALSE]

\* max_attempts of _generate_single_parlay
max_attempts == 50

\* AttemptAllowed with the loop one iteration short: range(max_attempts - 1)
AttemptAllowedOneShort(att) == att < max_attempts - 1

\* "for attempt in range(max_attempts)": whether another iteration runs
AttemptAllowed(att) == att < max_attempts

MinLegs == 5

MinEligible == 5

GoatMaxParlays == 3

OtherMaxParlays == 5

\* max_parlays without the GOAT case
max_parlays_no_goat(tier) == OtherMaxParlays

\* max_parlays of _build_tier_parlays
max_parlays(tier) == IF tier = "GOAT" THEN GoatMaxParlays ELSE OtherMaxParlays

\* the list comprehension that filters props by the tier's min_confidence
EligibleProps(ps, requirements) ==
    SelectSeq(ps, LAMBDA prop : prop.confidence_score >= requirements.min_confidence)

\* "if len(eligible_props) < 5"
TooFewEligible(elig) == Len(elig) < MinEligible

\* sorted(props, key=confidence_score, reverse=True): a stable insertion sort
RECURSIVE InsertByConfidence(_, _)
InsertByConfidence(sorted, prop) ==
    IF sorted = <<>> THEN <<prop>>
    ELSE IF Head(sorted).confidence_score >= prop.confidence_score
         THEN <<Head(sorted)>> \o InsertByConfidence(Tail(sorted), prop)
         ELSE <<prop>> \o sorted

RECURSIVE SortByConfidence(_)
SortByConfidence(ps) ==
    IF ps = <<>> THEN <<>>
    ELSE InsertByConfidence(SortByConfidence(SubSeq(ps, 1, Len(ps) - 1)), ps[Len(ps)])

CountTeam(sel, team) == Cardinality({k \in 1..Len(sel) : sel[k].team = team})

HasPlayer(sel, name) == \E k \in 1..Len(sel) : sel[k].player_name = name

MaxPerTeam == 2

\* MayAdd with the team test comparing against the count after adding (<= for <)
MayAddTeamOffByOne(selected, prop) ==
    /\ ~HasPlayer(selected, prop.player_name)
    /\ CountTeam(selected, prop.team) <= MaxPerTeam

\* the "Avoid duplicate players" and "Limit props from same team" tests of the loop
MayAdd(selected, prop) ==
    /\ ~HasPlayer(selected, prop.player_name)
    /\ CountTeam(selected, prop.team) < MaxPerTeam

\* the for loop of _select_parlay_props over sorted_props
RECURSIVE SelectLoop(_, _, _)
SelectLoop(sorted_props, num_legs, selected) ==
    IF sorted_props = <<>> \/ Len(selected) >= num_legs THEN selected
    ELSE IF MayAdd(selected, Head(sorted_props))
         THEN SelectLoop(Tail(sorted_props), num_legs, Append(selected, Head(sorted_props)))
         ELSE SelectLoop(Tail(sorted_props), num_legs, selected)

\* _select_parlay_props.  random.shuffle is applied to the slice sorted_props[:top_half],
\* which is a copy: sorted_props itself keeps its order, with or without
\* conservative_bias.
select_parlay_props(ps, num_legs, requirements) ==
    SelectLoop(SortByConfidence(ps), num_legs, <<>>)

\* _create_parlay_leg: confidence_score > 97.5 (GOAT) or hit_rate > 0.55 picks "over"
create_parlay_leg(prop, tier) ==
    LET selection == IF tier = "GOAT"
                     THEN (IF 2 * prop.confidence_score > 195 THEN "over" ELSE "under")
                     ELSE (IF prop.hit_rate > 55 THEN "over" ELSE "under")
    IN [player_prop |-> prop,
        selection |-> selection,
        odds |-> IF selection = "over" THEN prop.over_odds ELSE prop.under_odds,
        confidence |-> prop.confidence_score]

CreateLegs(selected, tier) == [k \in 1..Len(selected) |-> create_parlay_leg(selected[k], tier)]

\* one factor of the product in _calculate_total_odds (odds /= 0)
LegDecimal(odds) == IF odds > 0 THEN Rat(odds + 100, 100) ELSE Rat(100 + Abs(odds), Abs(odds))

RECURSIVE LegsDecimal(_)
LegsDecimal(legs) ==
    IF legs = <<>> THEN RatOne
    ELSE RatMul(LegsDecimal(SubSeq(legs, 1, Len(legs) - 1)), LegDecimal(legs[Len(legs)].odds))

\* 100 / abs(leg.odds) with leg.odds = 0, or -100 / (decimal_odds - 1) with decimal_odds = 1
TotalOddsRaises(legs) ==
    \/ \E k \in 1..Len(legs) : legs[k].odds = 0
    \/ legs = <<>>

\* int((decimal_odds - 1) * 100) or int(-100 / (decimal_odds - 1)); int() truncates
DecimalToAmericanInt(dec) ==
    IF 2 * dec[2] <= dec[1]
    THEN ((dec[1] - dec[2]) * 100) \div dec[2]
    ELSE -((100 * dec[2]) \div (dec[1] - dec[2]))

\* _calculate_total_odds (legs without zero odds)
calculate_total_odds(legs) == DecimalToAmericanInt(LegsDecimal(legs))

\* _odds_to_payout_multiplier
odds_to_payout_multiplier(american_odds) ==
    IF american_odds > 0 THEN Rat(american_odds + 100, 100)
    ELSE Rat(100 + Abs(american_odds), Abs(american_odds))

SumConfidence(legs) ==
    LET RECURSIVE Sum(_)
        Sum(k) == IF k = 0 THEN 0 ELSE Sum(k - 1) + legs[k].confidence
    IN Sum(Len(legs))

\* MeetsRequirements without the payout test
MeetsConfidenceOnly(overall_confidence, expected_payout, requirements) ==
    overall_confidence[1] >= requirements.min_confidence * overall_confidence[2]

PayoutTolerance == <<8, 10>>

\* the test "overall_confidence >= min_confidence and expected_payout >= target_payout * 0.8";
\* overall_confidence is the pair <<total_confidence, len(legs)>>
MeetsRequirements(overall_confidence, expected_payout, requirements) ==
    /\ overall_confidence[1] >= requirements.min_confidence * overall_confidence[2]
    /\ RatLeq(RatMul(<<requirements.target_payout, 1>>, PayoutTolerance), expected_payout)

\* the Parlay(...) built by an attempt; id stands for uuid4 (one per call)
MakeParlay(id, tier, legs) ==
    LET total_odds == calculate_total_odds(legs)
    IN [id |-> id, tier |-> tier, legs |-> legs, total_odds |-> total_odds,
        expected_payout |-> odds_to_payout_multiplier(total_odds),
        overall_confidence |-> <<SumConfidence(legs), Len(legs)>>]

PlayersOf(parlay) == {parlay.legs[k].player_prop.player_name : k \in 1..Len(parlay.legs)}

\* _is_duplicate_parlay with the floor division overlap // len(new_players)
is_duplicate_parlay_floor_division(new_parlay, existing_parlays) ==
    \E k \in 1..Len(existing_parlays) :
        10 * (Cardinality(PlayersOf(new_parlay) \cap PlayersOf(existing_parlays[k]))
                 \div Cardinality(PlayersOf(new_parlay))) > 6

\* _is_duplicate_parlay that takes only the same set of players as a duplicate
is_duplicate_parlay_same_players(new_parlay, existing_parlays) ==
    \E k \in 1..Len(existing_parlays) :
        PlayersOf(new_parlay) = PlayersOf(existing_parlays[k])

\* _is_duplicate_parlay: overlap / len(new_players) > 0.6
is_duplicate_parlay(new_parlay, existing_parlays) ==
    \E k \in 1..Len(existing_parlays) :
        10 * Cardinality(PlayersOf(new_parlay) \cap PlayersOf(existing_parlays[k]))
            > 6 * Cardinality(PlayersOf(new_parlay))

\* NumLegsChoices without the cap at max_legs: random.randint(5, len(props))
NumLegsChoicesUncapped(ps, requirements) == MinLegs..Len(ps)

\* random.randint(5, min(max_legs, len(props))): the values it can return
NumLegsChoices(ps, requirements) == MinLegs..Min2(requirements.max_legs, Len(ps))

(***************************************************************************)
(* build_parlays as a relation: every value one synchronous call can return, *)
(* over all the numbers of legs random.randint can draw.  The service calls  *)
(* build_parlays between two awaits, so it sees the call as one step.        *)
(***************************************************************************)
\* what one iteration of the attempt loop does when it draws num_legs
AttemptKind(elig, tier, num_legs) ==
    LET requirements == tier_requirements(tier)
        selected_props == select_parlay_props(elig, num_legs, requirements)
        legs == CreateLegs(selected_props, tier)
    IN IF Len(selected_props) < MinLegs THEN "continue"
       ELSE IF TotalOddsRaises(legs) THEN "raise"
       ELSE LET parlay == MakeParlay(0, tier, legs)
            IN IF MeetsRequirements(parlay.overall_confidence, parlay.expected_payout,
                                    requirements)
               THEN "return" ELSE "continue"

\* what one _generate_single_parlay call can do: return the parlay of a draw that is
\* accepted, return None after max_attempts draws that are not, or raise
CallOutcomes(elig, tier, id) ==
    LET choices == NumLegsChoices(elig, tier_requirements(tier))
        built(n) == MakeParlay(id, tier,
                       CreateLegs(select_parlay_props(elig, n, tier_requirements(tier)), tier))
    IN {[kind |-> "parlay", parlay |-> <<built(n)>>] :
            n \in {m \in choices : AttemptKind(elig, tier, m) = "return"}}
       \cup {[kind |-> "none", parlay |-> <<>>] :
            n \in {m \in choices : AttemptKind(elig, tier, m) = "continue"}}
       \cup {[kind |-> "raise", parlay |-> <<>>] :
            n \in {m \in choices : AttemptKind(elig, tier, m) = "raise"}}

\* the loop of _build_tier_parlays from iteration k on, with the parlays kept so far;
\* calls are numbered from firstId
RECURSIVE TierLoopOutcomes(_, _, _, _, _)
TierLoopOutcomes(elig, tier, k, kept, firstId) ==
    IF k >= max_parlays(tier) THEN {[raised |-> FALSE, parlays |-> kept]}
    ELSE UNION {
           IF o.kind = "raise" THEN {[raised |-> TRUE, parlays |-> <<>>]}
           ELSE TierLoopOutcomes(elig, tier, k + 1,
                    IF o.kind = "parlay" /\ ~is_duplicate_parlay(o.parlay[1], kept)
                    THEN Append(kept, o.parlay[1]) ELSE kept,
                    firstId)
           : o \in CallOutcomes(elig, tier, firstId + k + 1) }

\* _build_tier_parlays
build_tier_parlays(ps, tier, firstId) ==
    LET elig == EligibleProps(ps, tier_requirements(tier))
    IN IF TooFewEligible(elig) THEN {[raised |-> FALSE, parlays |-> <<>>]}
       ELSE TierLoopOutcomes(elig, tier, 0, <<>>, firstId)

\* the loop of build_parlays over tiers_to_build
RECURSIVE BuildOutcomes(_, _, _, _)
BuildOutcomes(ps, tiers, all_parlays, firstId) ==
    IF tiers = <<>> THEN {[raised |-> FALSE, parlays |-> all_parlays]}
    ELSE UNION {
           IF o.raised THEN {o}
           ELSE BuildOutcomes(ps, Tail(tiers), all_parlays \o o.parlays,
                              firstId + max_parlays(Head(tiers)))
           : o \in build_tier_parlays(ps, Head(tiers), firstId) }

\* build_parlays(props, sport, tier)
build_parlays(ps, tier) ==
    BuildOutcomes(ps, IF tier = None THEN Tiers ELSE <<tier>>, <<>>, 0)

(***************************************************************************)
(* Inputs of build_parlays: the sub-lists of a fixed list of props that    *)
(* holds a repeated player, three props of one team, two props of equal    *)
(* confidence, props below each tier's threshold and a prop with odds 0    *)
(***************************************************************************)
Prop(player, team, conf, hit, over, under) ==
    [player_name |-> player, team |-> team, confidence_score |-> conf,
     hit_rate |-> hit, over_odds |-> over, under_odds |-> under]

Universe ==
    << Prop("E", "T3", 80, 60, -200, 100),
       Prop("A", "T1", 99, 60, 100, -200),
       Prop("G", "T4", 50, 50, 100, 100),
       Prop("B", "T2", 88, 60, 100, 100),
       Prop("D", "T2", 88, 60, -200, 100),
       Prop("H", "T4", 46, 50, 100, 0),
       Prop("C", "T1", 92, 60, 100, 200),
       Prop("F", "T3", 60, 60, 100, -200),
       Prop("B", "T1", 96, 50, 200, 100) >>

MinPool == 6

MaxPool == 8

\* the sub-list of Universe at the positions S, in Universe's order
SubList(S) == SelectSeq(Universe, LAMBDA u : \E k \in S : Universe[k] = u)

\* eight props of eight players, two per team, every one eligible for every
\* tier and priced so that parlays of 5 to 8 legs all meet the payout target
WidePool ==
    << Prop("W1", "T1", 98, 60, 200, 200),
       Prop("W2", "T1", 90, 60, 200, 200),
       Prop("W3", "T2", 89, 60, 200, 200),
       Prop("W4", "T2", 88, 60, 200, 200),
       Prop("W5", "T3", 87, 60, 200, 200),
       Prop("W6", "T3", 86, 60, 200, 200),
       Prop("W7", "T4", 85, 60, 200, 200),
       Prop("W8", "T4", 84, 60, 200, 200) >>

BuilderInputs ==
    {SubList(S) : S \in {T \in SUBSET (1..Len(Universe)) :
                            Cardinality(T) >= MinPool /\ Cardinality(T) <= MaxPool}}
       \cup {WidePool}

TierArgs == TierSet \cup {None}

(***************************************************************************)
(* ParlayBuilder.build_parlays, one step per loop iteration                *)
(***************************************************************************)
InitBuilder ==
    /\ props \in BuilderInputs
    /\ tierArg \in TierArgs
    /\ pc = "start"
    /\ tiersLeft = <<>> /\ curTier = None /\ eligible = <<>>
    /\ i = 0 /\ attempt = 0 /\ genResult = <<>>
    /\ parlays = <<>> /\ allParlays = <<>>
    /\ genCalls = 0 /\ firstOk = 0 /\ lastSelected = 0 /\ tierDone = <<>>
    /\ fTarget = 0 /\ fPool = <<>> /\ fMaxLegs = 0 /\ fSorted = <<>> /\ fPc = "off"
    /\ fNumLegs = 0 /\ fCombo = <<>> /\ fBestDiff = <<>> /\ fBest = <<>>
    /\ fEnumerated = 0
    /\ cache = <<>> /\ lastRefresh = <<>> /\ stats = <<>> /\ procs = <<>>
    /\ returned = <<>> /\ nextGen = 0 /\ genLog = <<>>
    /\ completed = <<>> /\ refreshed = <<>>
    /\ fetch = <<>> /\ calc = <<>> /\ sched = <<>> /\ run = <<>>

\* build_parlays, lines 55-56
BuildParlays ==
    /\ pc = "start"
    /\ tiersLeft' = IF tierArg = None THEN Tiers ELSE <<tierArg>>
    /\ allParlays' = <<>>
    /\ pc' = "tier"
    /\ UNCHANGED <<props, tierArg, curTier, eligible, i, attempt, genResult, parlays,
                   genCalls, firstOk, lastSelected, tierDone>>
    /\ UNCHANGED <<searchVars, serviceVars, otherVars>>

\* _build_tier_parlays, lines 67-81: filter, the early return, the loop's set-up
BuildTierParlays ==
    /\ pc = "tier" /\ tiersLeft # <<>>
    /\ LET tier == Head(tiersLeft)
           elig == EligibleProps(props, tier_requirements(tier))
       IN /\ curTier' = tier
          /\ tiersLeft' = Tail(tiersLeft)
          /\ eligible' = elig
          /\ parlays' = <<>>
          /\ i' = 0
          /\ IF TooFewEligible(elig)
             THEN /\ pc' = "tier"
                  /\ tierDone' = Append(tierDone,
                        [tier |-> tier, eligible |-> Len(elig), result |-> <<>>])
             ELSE /\ pc' = "loop"
                  /\ tierDone' = tierDone
    /\ UNCHANGED <<props, tierArg, attempt, genResult, allParlays, genCalls, firstOk,
                   lastSelected>>
    /\ UNCHANGED <<searchVars, serviceVars, otherVars>>

\* the call of _generate_single_parlay in iteration i of the loop, lines 83-86 and 95
CallGenerate ==
    /\ pc = "loop" /\ i < max_parlays(curTier)
    /\ attempt' = 0 /\ firstOk' = 0 /\ lastSelected' = 0
    /\ genResult' = <<>>
    /\ genCalls' = genCalls + 1
    /\ pc' = "attempt"
    /\ UNCHANGED <<props, tierArg, tiersLeft, curTier, eligible, i, parlays, allParlays,
                   tierDone>>
    /\ UNCHANGED <<searchVars, serviceVars, otherVars>>

\* one iteration of the attempt loop, lines 97-136
Attempt(num_legs) ==
    /\ pc = "attempt" /\ AttemptAllowed(attempt)
    /\ LET requirements == tier_requirements(curTier)
           selected_props == select_parlay_props(eligible, num_legs, requirements)
           legs == CreateLegs(selected_props, curTier)
       IN /\ attempt' = attempt + 1
          /\ lastSelected' = Len(selected_props)
          /\ IF Len(selected_props) < MinLegs
             THEN UNCHANGED <<pc, genResult, firstOk>>
             ELSE IF TotalOddsRaises(legs)
             THEN /\ pc' = "raised"
                  /\ UNCHANGED <<genResult, firstOk>>
             ELSE LET parlay == MakeParlay(genCalls, curTier, legs)
                      ok == MeetsRequirements(parlay.overall_confidence,
                                              parlay.expected_payout, requirements)
                  IN /\ firstOk' = IF ok /\ firstOk = 0 THEN attempt + 1 ELSE firstOk
                     /\ genResult' = IF ok THEN <<parlay>> ELSE <<>>
                     /\ pc' = IF ok THEN "returned" ELSE "attempt"
    /\ UNCHANGED <<props, tierArg, tiersLeft, curTier, eligible, i, parlays, allParlays,
                   genCalls, tierDone>>
    /\ UNCHANGED <<searchVars, serviceVars, otherVars>>

\* the end of the attempt loop, lines 138-139
AttemptsExhausted ==
    /\ pc = "attempt" /\ ~AttemptAllowed(attempt)
    /\ genResult' = <<>>
    /\ pc' = "returned"
    /\ UNCHANGED <<props, tierArg, tiersLeft, curTier, eligible, i, attempt, parlays,
                   allParlays, genCalls, firstOk, lastSelected, tierDone>>
    /\ UNCHANGED <<searchVars, serviceVars, otherVars>>

\* lines 87-88: keep the parlay unless it is None or a duplicate
AppendParlay ==
    /\ pc = "returned"
    /\ parlays' = IF genResult # <<>> /\ ~is_duplicate_parlay(genResult[1], parlays)
                  THEN Append(parlays, genResult[1]) ELSE parlays
    /\ i' = i + 1
    /\ pc' = "loop"
    /\ UNCHANGED <<props, tierArg, tiersLeft, curTier, eligible, attempt, genResult,
                   allParlays, genCalls, firstOk, lastSelected, tierDone>>
    /\ UNCHANGED <<searchVars, serviceVars, otherVars>>

\* line 90 and build_parlays line 60
TierReturn ==
    /\ pc = "loop" /\ i >= max_parlays(curTier)
    /\ allParlays' = allParlays \o parlays
    /\ tierDone' = Append(tierDone,
            [tier |-> curTier, eligible |-> Len(eligible), result |-> parlays])
    /\ pc' = "tier"
    /\ UNCHANGED <<props, tierArg, tiersLeft, curTier, eligible, i, attempt, genResult,
                   parlays, genCalls, firstOk, lastSelected>>
    /\ UNCHANGED <<searchVars, serviceVars, otherVars>>

\* build_parlays line 62
BuildReturn ==
    /\ pc = "tier" /\ tiersLeft = <<>>
    /\ pc' = "done"
    /\ UNCHANGED <<props, tierArg, tiersLeft, curTier, eligible, i, attempt, genResult,
                   parlays, allParlays, genCalls, firstOk, lastSelected, tierDone>>
    /\ UNCHANGED <<searchVars, serviceVars, otherVars>>

NextBuilder ==
    \/ BuildParlays
    \/ BuildTierParlays
    \/ CallGenerate
    \/ \E n \in NumLegsChoices(eligible, tier_requirements(curTier)) : Attempt(n)
    \/ AttemptsExhausted
    \/ AppendParlay
    \/ TierReturn
    \/ BuildReturn

SpecBuilder == InitBuilder /\ [][NextBuilder]_vars

(***************************************************************************)
(* odds_math.find_parlay_combination, one step per enumerated subset       *)
(***************************************************************************)
\* american_to_decimal (american_odds /= 0; 0 raises ZeroDivisionError)
american_to_decimal(american_odds) ==
    IF american_odds > 0 THEN Rat(american_odds + 100, 100)
    ELSE Rat(100 + Abs(american_odds), Abs(american_odds))

DefaultConfidence == 0

DefaultOdds == 200

TopN == 20

\* dict.get(key, default)
Get(d, key, default) == IF key \in DOMAIN d THEN d[key] ELSE default

\* sorted(available_props, key=confidence_score or 0, reverse=True): stable
RECURSIVE InsertDict(_, _)
InsertDict(sorted, d) ==
    IF sorted = <<>> THEN <<d>>
    ELSE IF Get(Head(sorted), "confidence_score", DefaultConfidence)
              >= Get(d, "confidence_score", DefaultConfidence)
         THEN <<Head(sorted)>> \o InsertDict(Tail(sorted), d)
         ELSE <<d>> \o sorted

RECURSIVE SortDicts(_)
SortDicts(ds) ==
    IF ds = <<>> THEN <<>>
    ELSE InsertDict(SortDicts(SubSeq(ds, 1, Len(ds) - 1)), ds[Len(ds)])

\* TopLen without the cut to the first 20
TopLenUncut(sorted) == Len(sorted)

\* len(sorted_props[:min(20, len(sorted_props))])
TopLen(sorted) == Min2(TopN, Len(sorted))

\* the end of range(2, min(max_legs + 1, len(sorted_props) + 1))
NumLegsEnd(max_legs, sorted) == Min2(max_legs + 1, Len(sorted) + 1)

\* itertools.combinations: the first r-subset of 1..n as an increasing index tuple
FirstCombo(r) == [k \in 1..r |-> k]

\* itertools.combinations: the subset after c among the r-subsets of 1..n, <<>> after the last
NextCombo(c, n) ==
    LET r == Len(c)
        movable == {j \in 1..r : c[j] < n - r + j}
    IN IF movable = {} THEN <<>>
       ELSE LET j == CHOOSE x \in movable : \A y \in movable : y <= x
            IN [k \in 1..r |-> IF k < j THEN c[k] ELSE c[j] + 1 + (k - j)]

ComboOdds(sorted, c) == [k \in 1..Len(c) |-> Get(sorted[c[k]], "estimated_odds", DefaultOdds)]

\* combined_decimal of a combo (no odds of 0)
RECURSIVE CombinedDecimal(_)
CombinedDecimal(odds) ==
    IF odds = <<>> THEN RatOne
    ELSE RatMul(CombinedDecimal(SubSeq(odds, 1, Len(odds) - 1)),
                american_to_decimal(odds[Len(odds)]))

\* float('inf')
Infinity == <<1, 0>>

CloseFraction == <<1, 10>>

\* CloseEnough with the tolerance applied to the wrong side: diff * 0.1 < target_decimal
CloseEnoughInverted(diff, target_decimal) == RatLess(RatMul(diff, CloseFraction), target_decimal)

\* "diff < target_decimal * 0.1"
CloseEnough(diff, target_decimal) == RatLess(diff, RatMul(target_decimal, CloseFraction))

SearchKinds ==
    { [confidence_score |-> 90, estimated_odds |-> 150],
      [confidence_score |-> 80, estimated_odds |-> -200],
      [confidence_score |-> 70, estimated_odds |-> 100],
      [estimated_odds |-> 175],
      [confidence_score |-> 60],
      [confidence_score |-> 50, estimated_odds |-> 0] }

MaxPoolLen == 3

MaxLegsArg == 3

\* TopN props that outrank every prop of SearchKinds
Filler == [k \in 1..TopN |-> [confidence_score |-> 95, estimated_odds |-> 900]]

SearchPools ==
    UNION {[1..n -> SearchKinds] : n \in 1..MaxPoolLen}
    \cup {<<x>> \o Filler : x \in {d \in SearchKinds : Get(d, "estimated_odds", DefaultOdds) \in {100, 175}}}

SearchTargets == {-200, 0, 300, 450}

InitSearch ==
    /\ fTarget \in SearchTargets
    /\ fPool \in SearchPools
    /\ fMaxLegs \in 1..MaxLegsArg
    /\ fSorted = <<>> /\ fPc = "start" /\ fNumLegs = 0 /\ fCombo = <<>>
    /\ fBestDiff = Infinity /\ fBest = <<>>
    /\ fEnumerated = [r \in 1..fMaxLegs |-> 0]
    /\ props = <<>> /\ tierArg = None /\ pc = "off" /\ tiersLeft = <<>>
    /\ curTier = None /\ eligible = <<>> /\ i = 0 /\ attempt = 0
    /\ genResult = <<>> /\ parlays = <<>> /\ allParlays = <<>> /\ genCalls = 0
    /\ firstOk = 0 /\ lastSelected = 0 /\ tierDone = <<>>
    /\ cache = <<>> /\ lastRefresh = <<>> /\ stats = <<>> /\ procs = <<>>
    /\ returned = <<>> /\ nextGen = 0 /\ genLog = <<>>
    /\ completed = <<>> /\ refreshed = <<>>
    /\ fetch = <<>> /\ calc = <<>> /\ sched = <<>> /\ run = <<>>

\* lines 148-153: target_decimal, best_combination, best_diff, sorted_props
FindStart ==
    /\ fPc = "start"
    /\ IF fTarget = 0
       THEN /\ fPc' = "raised"
            /\ UNCHANGED <<fSorted, fNumLegs>>
       ELSE /\ fSorted' = SortDicts(fPool)
            /\ fNumLegs' = 2
            /\ fPc' = "for_num_legs"
    /\ fBestDiff' = Infinity /\ fBest' = <<>>
    /\ UNCHANGED <<fTarget, fPool, fMaxLegs, fCombo, fEnumerated>>
    /\ UNCHANGED <<builderVars, serviceVars, otherVars>>

\* line 158-159: the head of the outer loop and the start of combinations(...)
ForNumLegs ==
    /\ fPc = "for_num_legs"
    /\ IF fNumLegs < NumLegsEnd(fMaxLegs, fSorted)
       THEN IF fNumLegs <= TopLen(fSorted)
            THEN fCombo' = FirstCombo(fNumLegs) /\ fPc' = "for_combo"
            ELSE fCombo' = <<>> /\ fPc' = "after_combos"
       ELSE fCombo' = <<>> /\ fPc' = "done"
    /\ UNCHANGED <<fTarget, fPool, fMaxLegs, fSorted, fNumLegs, fBestDiff, fBest, fEnumerated>>
    /\ UNCHANGED <<builderVars, serviceVars, otherVars>>

\* lines 159-172: the body of the inner loop for the combo fCombo
ForCombo ==
    /\ fPc = "for_combo"
    /\ LET combo_odds == ComboOdds(fSorted, fCombo)
           target_decimal == american_to_decimal(fTarget)
       IN IF \E k \in 1..Len(combo_odds) : combo_odds[k] = 0
          THEN /\ fPc' = "raised"
               /\ UNCHANGED <<fCombo, fBestDiff, fBest, fEnumerated>>
          ELSE LET diff == RatAbsDiff(CombinedDecimal(combo_odds), target_decimal)
                   better == RatLess(diff, fBestDiff)
                   next == NextCombo(fCombo, TopLen(fSorted))
               IN /\ fEnumerated' = [fEnumerated EXCEPT ![Len(fCombo)] = @ + 1]
                  /\ fBestDiff' = IF better THEN diff ELSE fBestDiff
                  /\ fBest' = IF better THEN fCombo ELSE fBest
                  /\ IF (better /\ CloseEnough(diff, target_decimal)) \/ next = <<>>
                     THEN fPc' = "after_combos" /\ fCombo' = fCombo
                     ELSE fPc' = "for_combo" /\ fCombo' = next
    /\ UNCHANGED <<fTarget, fPool, fMaxLegs, fSorted, fNumLegs>>
    /\ UNCHANGED <<builderVars, serviceVars, otherVars>>

\* lines 174-175: the break of the outer loop, or its next iteration
AfterCombos ==
    /\ fPc = "after_combos"
    /\ IF CloseEnough(fBestDiff, american_to_decimal(fTarget))
       THEN fPc' = "done" /\ fNumLegs' = fNumLegs
       ELSE fPc' = "for_num_legs" /\ fNumLegs' = fNumLegs + 1
    /\ UNCHANGED <<fTarget, fPool, fMaxLegs, fSorted, fCombo, fBestDiff, fBest, fEnumerated>>
    /\ UNCHANGED <<builderVars, serviceVars, otherVars>>

NextSearch ==
    \/ FindStart
    \/ ForNumLegs
    \/ ForCombo
    \/ AfterCombos

SpecSearch == InitSearch /\ [][NextSearch]_vars

\* line 177: the list returned, best_combination
ReturnedCombination == [k \in 1..Len(fBest) |-> fSorted[fBest[k]]]

(***************************************************************************)
(* PropAnalyzer: the scores _generate_fresh_parlays gives to the props     *)
(***************************************************************************)
RatAdd(x, y) == Rat(x[1] * y[2] + y[1] * x[2], x[2] * y[2])

RatSub(x, y) == Rat(x[1] * y[2] - y[1] * x[2], x[2] * y[2])

\* historical_data: one record per game, age in days before now.  The scores
\* of these records are whole percents.
HistoricalData ==
    << [player_name |-> "P1", prop_type |-> "hits", age |-> 400, hit |-> 1],
       [player_name |-> "P2", prop_type |-> "hits", age |-> 400, hit |-> 1],
       [player_name |-> "P3", prop_type |-> "hits", age |-> 400, hit |-> 1],
       [player_name |-> "P6", prop_type |-> "hits", age |-> 401, hit |-> 1],
       [player_name |-> "P6", prop_type |-> "hits", age |-> 400, hit |-> 1],
       [player_name |-> "P7", prop_type |-> "home_runs", age |-> 10, hit |-> 1] >>

RECURSIVE SumHits(_)
SumHits(recs) == IF recs = <<>> THEN 0 ELSE recs[1].hit + SumHits(Tail(recs))

NeutralRate == <<1, 2>>

\* filtered_data['hit'].mean() of a non-empty frame
MeanHit(recs) == Rat(SumHits(recs), Len(recs))

\* self.historical_data: None, or a frame of rows
NoFrame == [loaded |-> FALSE, rows |-> <<>>]

Frame(rows) == [loaded |-> TRUE, rows |-> rows]

\* lines 70-84 without the fall back of lines 75-82
PlayerHitRateOwnOnly(historical_data, player_name, prop_type, days_back) ==
    LET filtered_data == SelectSeq(historical_data.rows, LAMBDA r :
                             /\ r.player_name = player_name
                             /\ r.prop_type = prop_type
                             /\ r.age <= days_back)
    IN IF ~historical_data.loaded \/ Len(historical_data.rows) = 0 THEN NeutralRate
       ELSE IF Len(filtered_data) = 0 THEN NeutralRate
            ELSE MeanHit(filtered_data)

\* lines 64-84: get_player_hit_rate on the data of the analyzer
PlayerHitRate(historical_data, player_name, prop_type, days_back) ==
    LET filtered_data == SelectSeq(historical_data.rows, LAMBDA r :
                             /\ r.player_name = player_name
                             /\ r.prop_type = prop_type
                             /\ r.age <= days_back)
        prop_data == SelectSeq(historical_data.rows, LAMBDA r :
                             r.prop_type = prop_type /\ r.age <= days_back)
    IN IF ~historical_data.loaded \/ Len(historical_data.rows) = 0 THEN NeutralRate
       ELSE IF Len(filtered_data) = 0
            THEN (IF Len(prop_data) > 0 THEN MeanHit(prop_data) ELSE NeutralRate)
            ELSE MeanHit(filtered_data)

\* get_player_hit_rate(player_name, prop_type, days_back)
get_player_hit_rate(player_name, prop_type, days_back) ==
    PlayerHitRate(Frame(HistoricalData), player_name, prop_type, days_back)

RECURSIVE InsertByAge(_, _)
InsertByAge(sorted, r) ==
    IF sorted = <<>> THEN <<r>>
    ELSE IF Head(sorted).age <= r.age
         THEN <<Head(sorted)>> \o InsertByAge(Tail(sorted), r)
         ELSE <<r>> \o sorted

RECURSIVE SortByAge(_)
SortByAge(recs) ==
    IF recs = <<>> THEN <<>>
    ELSE InsertByAge(SortByAge(SubSeq(recs, 1, Len(recs) - 1)), recs[Len(recs)])

\* lines 99-107: the player's games, most recent first, at most games_back
RecentPerformance(historical_data, player_name, prop_type, games_back) ==
    LET recent_data == SortByAge(SelectSeq(historical_data.rows, LAMBDA r :
                           r.player_name = player_name /\ r.prop_type = prop_type))
    IN IF ~historical_data.loaded THEN <<>>
       ELSE SubSeq(recent_data, 1, Min2(games_back, Len(recent_data)))

\* get_recent_performance: the player's games, most recent first, at most games_back
get_recent_performance(player_name, prop_type, games_back) ==
    RecentPerformance(Frame(HistoricalData), player_name, prop_type, games_back)

\* line 161: weight = games_back - i, for the games in the order of the list
GameWeights(recent_performance, games_back) ==
    [k \in 1..Len(recent_performance) |-> games_back - (k - 1)]

RECURSIVE WeightedHits(_, _, _)
WeightedHits(recs, k, games_back) ==
    IF k > Len(recs) THEN 0
    ELSE recs[k].hit * (games_back - (k - 1)) + WeightedHits(recs, k + 1, games_back)

RECURSIVE TotalWeight(_, _, _)
TotalWeight(recs, k, games_back) ==
    IF k > Len(recs) THEN 0
    ELSE (games_back - (k - 1)) + TotalWeight(recs, k + 1, games_back)

\* The form weight as the plain mean of the games
FormWeightUnweighted(recent_performance, games_back) ==
    IF recent_performance = <<>> THEN NeutralRate
    ELSE MeanHit(recent_performance)

\* lines 152-165: the form weight of the games get_recent_performance returned
FormWeight(recent_performance, games_back) ==
    LET total_weight == TotalWeight(recent_performance, 1, games_back)
    IN IF recent_performance = <<>> THEN NeutralRate
       ELSE IF total_weight > 0
            THEN Rat(WeightedHits(recent_performance, 1, games_back), total_weight)
            ELSE NeutralRate

\* get_recent_form_weight(player_name, prop_type, games_back)
get_recent_form_weight(player_name, prop_type, games_back) ==
    FormWeight(get_recent_performance(player_name, prop_type, games_back), games_back)

ConfidenceDaysBack == 90

RecentGames == 10

RecentAdjustment == 40

\* The score without the clamp of line 146
ConfidenceUnclamped(historical_hit_rate, recent_form_weight) ==
    RatAdd(RatMul(historical_hit_rate, <<100, 1>>),
           RatMul(RatSub(recent_form_weight, NeutralRate), <<RecentAdjustment, 1>>))

\* lines 133-146: the score of a hit rate and a form weight, the other factors 1.0
ConfidenceOf(historical_hit_rate, recent_form_weight) ==
    LET base_confidence == RatMul(historical_hit_rate, <<100, 1>>)
        recent_adjustment == RatMul(RatSub(recent_form_weight, NeutralRate),
                                    <<RecentAdjustment, 1>>)
        final_confidence == RatAdd(base_confidence, recent_adjustment)
    IN IF RatLess(<<100, 1>>, final_confidence) THEN <<100, 1>>
       ELSE IF RatLess(final_confidence, <<0, 1>>) THEN <<0, 1>>
       ELSE final_confidence

\* calculate_confidence_score(player_name, prop_type, line)
calculate_confidence_score(player_name, prop_type) ==
    ConfidenceOf(get_player_hit_rate(player_name, prop_type, ConfidenceDaysBack),
                 get_recent_form_weight(player_name, prop_type, RecentGames))

\* a whole rational as an integer
Whole(r) == r[1] \div r[2]

HitRateDaysBack == 30

\* lines 200-214: every prop gets the analyzer's confidence score and hit rate
ScoreProps(all_props) ==
    [k \in 1..Len(all_props) |->
        [all_props[k] EXCEPT
            !.confidence_score =
                Whole(calculate_confidence_score(all_props[k].player_name,
                                                 all_props[k].prop_type)),
            !.hit_rate =
                Whole(RatMul(get_player_hit_rate(all_props[k].player_name,
                                                 all_props[k].prop_type, HitRateDaysBack),
                             <<100, 1>>))]]

(***************************************************************************)
(* ParlayService: get_parlays, refresh_parlays and _generate_fresh_parlays *)
(* as coroutines that interleave at the three provider fetches, and the    *)
(* scheduler's _daily_cleanup.  A cache key "<sport>_<suffix>" is the pair *)
(* <<sport, suffix>>; no sport name is a prefix of another, so             *)
(* key.startswith(sport) is key[1] = sport.                                *)
(***************************************************************************)
Sports == {"NFL", "MLB"}

MaxCalls == 2

\* f"{sport.value}_{tier.value if tier else 'all'}"
CacheKey(sport, tier) == <<sport, IF tier = None THEN "all" ELSE tier>>

\* str.lower() on the prop types the providers send
Lower(str) == IF str = "HITS" THEN "hits" ELSE str

\* the values of PropType that occur
PropTypeValues == {"hits", "home_runs"}

RawProp(player, team, prop_type, over, under) ==
    [player_name |-> player, team |-> team, prop_type |-> prop_type,
     over_odds |-> over, under_odds |-> under]

\* a list SportsDataService.fetch_player_props can return: an upper-case and an
\* unknown prop type among the dictionaries
SportsDataPropsA ==
    << RawProp("P1", "T1", "hits", 100, 100),
       RawProp("P2", "T1", "HITS", 100, 100),
       RawProp("P3", "T2", "hits", 100, 150),
       RawProp("P4", "T2", "hits", 100, 100),
       RawProp("P5", "T3", "hits", 100, 100),
       RawProp("P6", "T3", "bogus", 100, 100) >>

\* another list it can return: a dictionary with odds 0
SportsDataPropsB ==
    << RawProp("P1", "T1", "hits", 100, 100),
       RawProp("P2", "T1", "hits", 100, 100),
       RawProp("P3", "T2", "hits", 100, 150),
       RawProp("P4", "T2", "hits", 100, 100),
       RawProp("P5", "T3", "hits", 100, 0) >>

PlaceholderConfidence == 75

PlaceholderHitRate == 55

\* lines 179-192: the PlayerProp made of a SportsDataIO dictionary
PlayerProp(prop_data, prop_type) ==
    [player_name |-> prop_data.player_name, team |-> prop_data.team,
     prop_type |-> prop_type,
     over_odds |-> prop_data.over_odds, under_odds |-> prop_data.under_odds,
     confidence_score |-> PlaceholderConfidence, hit_rate |-> PlaceholderHitRate]

\* A conversion loop that ends at the first dictionary of an unknown prop type
RECURSIVE ConvertRawUntilUnknown(_)
ConvertRawUntilUnknown(sports_data_raw) ==
    IF sports_data_raw = <<>> THEN <<>>
    ELSE LET prop_data == Head(sports_data_raw)
             prop_type == Lower(prop_data.prop_type)
         IN IF prop_type \in PropTypeValues
            THEN <<PlayerProp(prop_data, prop_type)>>
                 \o ConvertRawUntilUnknown(Tail(sports_data_raw))
            ELSE <<>>

\* lines 172-193: dictionaries of an unknown prop type are skipped
RECURSIVE ConvertRaw(_)
ConvertRaw(sports_data_raw) ==
    IF sports_data_raw = <<>> THEN <<>>
    ELSE LET prop_data == Head(sports_data_raw)
             prop_type == Lower(prop_data.prop_type)
         IN (IF prop_type \in PropTypeValues
             THEN <<PlayerProp(prop_data, prop_type)>> ELSE <<>>)
            \o ConvertRaw(Tail(sports_data_raw))

\* what FanDuelService.fetch_fanduel_odds returns when the request succeeds
FanDuelProps ==
    << PlayerProp(RawProp("P6", "T3", "hits", 150, 150), "hits") >>

\* what OddsJamService.fetch_player_props returns when the request succeeds
OddsJamProps ==
    << PlayerProp(RawProp("P7", "T4", "home_runs", 100, 150), "home_runs") >>

SportsDataResults == {SportsDataPropsA, SportsDataPropsB}

FanDuelResults == {<<>>, FanDuelProps}

OddsJamResults == {<<>>, OddsJamProps}

\* lines 172-196: all_props, the converted dictionaries before the two lists
CombinedProps(sports_data_raw, fanduel_props, oddsjam_props) ==
    ConvertRaw(sports_data_raw) \o fanduel_props \o oddsjam_props

\* what lines 172-197 log: one info record with the three counts
ConversionLog(sports_data_raw, fanduel_props, oddsjam_props) ==
    << [level |-> "info",
        counts |-> <<Len(ConvertRaw(sports_data_raw)), Len(fanduel_props),
                     Len(oddsjam_props)>>] >>

\* the Parlay a call makes: uuid4 ids differ between calls and between parlays
ServiceParlay(parlay, call, sport) ==
    [id |-> <<call, parlay.id>>, sport |-> sport, tier |-> parlay.tier,
     legs |-> parlay.legs, total_odds |-> parlay.total_odds,
     expected_payout |-> parlay.expected_payout,
     overall_confidence |-> parlay.overall_confidence]

\* lines 171-217 of _generate_fresh_parlays, after the three fetches: what
\* build_parlays can do with the scored props of each combination of provider
\* results, computed once
BuiltFrom ==
    {[sports_data_raw |-> x[1], fanduel_props |-> x[2], oddsjam_props |-> x[3],
      tier |-> x[4],
      outcomes |-> build_parlays(ScoreProps(CombinedProps(x[1], x[2], x[3])), x[4])]
     : x \in SportsDataResults \X FanDuelResults \X OddsJamResults \X (TierSet \cup {None})}

\* _generate_fresh_parlays after the three fetches: the lists it can return, or "raised"
GenerateOutcomes(call, sport, tier, sports_data_raw, fanduel_props, oddsjam_props) ==
    LET built == CHOOSE b \in BuiltFrom :
                    /\ b.sports_data_raw = sports_data_raw
                    /\ b.fanduel_props = fanduel_props
                    /\ b.oddsjam_props = oddsjam_props
                    /\ b.tier = tier
    IN {[raised |-> o.raised,
         parlays |-> [k \in 1..Len(o.parlays) |-> ServiceParlay(o.parlays[k], call, sport)]]
        : o \in built.outcomes}

\* [p for p in parlays if p.tier == tier]
OfTier(parlay_list, tier) == SelectSeq(parlay_list, LAMBDA p : p.tier = tier)

\* create_parlay_response: the parlay, with an analysis computed from it
create_parlay_response(parlay) == [parlay |-> parlay]

Responses(parlay_list) == [k \in 1..Len(parlay_list) |-> create_parlay_response(parlay_list[k])]

\* "for key in keys_to_remove: del self.parlay_cache[key]"
WithoutSport(c, sport) == [k \in {x \in DOMAIN c : x[1] # sport} |-> c[k]]

\* A refresh write that leaves the entries it finds and adds the missing ones
WriteSportKeepFound(c, sport, parlay_list) ==
    [k \in DOMAIN c \cup {CacheKey(sport, t) : t \in TierSet \cup {None}} |->
        IF k \in DOMAIN c THEN c[k]
        ELSE IF k[2] = "all" THEN parlay_list ELSE OfTier(parlay_list, k[2])]

\* A refresh write of the three tier entries only
WriteSportTiersOnly(c, sport, parlay_list) ==
    [k \in DOMAIN c \cup {CacheKey(sport, t) : t \in TierSet} |->
        IF k[1] = sport /\ k[2] # "all" THEN OfTier(parlay_list, k[2]) ELSE c[k]]

\* A refresh write that stores the whole list under every key of the sport
WriteSportUnfiltered(c, sport, parlay_list) ==
    [k \in DOMAIN c \cup {CacheKey(sport, t) : t \in TierSet \cup {None}} |->
        IF k[1] = sport THEN parlay_list ELSE c[k]]

\* A failed refresh that puts back an empty list under every key of the sport
RestoredEmpty(c, sport) ==
    [k \in DOMAIN c \cup {CacheKey(sport, t) : t \in TierSet \cup {None}} |->
        IF k[1] = sport THEN <<>> ELSE c[k]]

\* lines 104-108: the except clause stores nothing and re-raises
AfterFailure(c, sport) == c

\* lines 95-101: the three tier entries and the "<sport>_all" entry
WriteSport(c, sport, parlay_list) ==
    [k \in DOMAIN c \cup {CacheKey(sport, t) : t \in TierSet \cup {None}} |->
        IF k[1] = sport
        THEN (IF k[2] = "all" THEN parlay_list ELSE OfTier(parlay_list, k[2]))
        ELSE c[k]]

ZeroStats ==
    [total_parlays_generated |-> 0, successful_requests |-> 0,
     failed_requests |-> 0, cache_hits |-> 0]

NoReturn == [id |-> 0, op |-> "none", sport |-> "none", tier |-> None,
             kind |-> "none", responses |-> <<>>]

\* datetime.now(): a time that advances with every completed call
Now == Len(completed) + 1

NewProc(op, sport, tier) ==
    [op |-> op, sport |-> sport, tier |-> tier, pc |-> "sports_data",
     sports_data_raw |-> <<>>, fanduel_props |-> <<>>]

Started(id, proc) == [k \in DOMAIN procs \cup {id} |-> IF k = id THEN proc ELSE procs[k]]

Finished(id) == [k \in DOMAIN procs \ {id} |-> procs[k]]

Completion(id, kind) ==
    [id |-> id, op |-> procs[id].op, sport |-> procs[id].sport, kind |-> kind]

InitService ==
    /\ cache = <<>>
    /\ lastRefresh = <<>>
    /\ stats = ZeroStats
    /\ procs = <<>>
    /\ nextGen = 0
    /\ genLog = <<>>
    /\ returned = NoReturn
    /\ completed = <<>> /\ refreshed = <<>>
    /\ fetch = <<>> /\ calc = <<>> /\ sched = <<>> /\ run = <<>>
    /\ props = <<>> /\ tierArg = None /\ pc = "off" /\ tiersLeft = <<>>
    /\ curTier = None /\ eligible = <<>> /\ i = 0 /\ attempt = 0
    /\ genResult = <<>> /\ parlays = <<>> /\ allParlays = <<>> /\ genCalls = 0
    /\ firstOk = 0 /\ lastSelected = 0 /\ tierDone = <<>>
    /\ fTarget = 0 /\ fPool = <<>> /\ fMaxLegs = 0 /\ fSorted = <<>> /\ fPc = "off"
    /\ fNumLegs = 0 /\ fCombo = <<>> /\ fBestDiff = <<>> /\ fBest = <<>>
    /\ fEnumerated = 0

\* history: the list generated last for each of the keys
RecordGeneration(g, keys, parlay_list) ==
    [k \in DOMAIN g \cup keys |->
        IF k \in keys
        THEN (IF k[2] = "all" THEN parlay_list ELSE OfTier(parlay_list, k[2]))
        ELSE g[k]]

\* get_parlays, lines 53-67: the cache holds the key
GetParlaysHit(sport, tier) ==
    /\ nextGen < MaxCalls
    /\ CacheKey(sport, tier) \in DOMAIN cache
    /\ nextGen' = nextGen + 1
    /\ stats' = [stats EXCEPT !.cache_hits = @ + 1, !.successful_requests = @ + 1]
    /\ LET cached == cache[CacheKey(sport, tier)]
           filtered == IF tier # None THEN OfTier(cached, tier) ELSE cached
       IN returned' = [id |-> nextGen + 1, op |-> "get", sport |-> sport, tier |-> tier,
                       kind |-> "hit", responses |-> Responses(filtered)]
    /\ completed' = Append(completed, [id |-> nextGen + 1, op |-> "get",
                                       sport |-> sport, kind |-> "hit"])
    /\ UNCHANGED <<cache, lastRefresh, procs, genLog, refreshed>>
    /\ UNCHANGED <<builderVars, searchVars, otherVars>>

\* get_parlays, lines 53-56 and 70: a miss, up to the first await of the generation
GetParlaysMiss(sport, tier) ==
    /\ nextGen < MaxCalls
    /\ CacheKey(sport, tier) \notin DOMAIN cache
    /\ nextGen' = nextGen + 1
    /\ procs' = Started(nextGen + 1, NewProc("get", sport, tier))
    /\ UNCHANGED <<cache, lastRefresh, stats, genLog, returned, completed, refreshed>>
    /\ UNCHANGED <<builderVars, searchVars, otherVars>>

\* refresh_parlays, lines 84-92: the sport's keys are deleted, up to the first await
RefreshParlays(sport) ==
    /\ nextGen < MaxCalls
    /\ nextGen' = nextGen + 1
    /\ cache' = WithoutSport(cache, sport)
    /\ procs' = Started(nextGen + 1, NewProc("refresh", sport, None))
    /\ genLog' = WithoutSport(genLog, sport)
    /\ refreshed' = [s \in DOMAIN refreshed \ {sport} |-> refreshed[s]]
    /\ UNCHANGED <<lastRefresh, stats, returned, completed>>
    /\ UNCHANGED <<builderVars, searchVars, otherVars>>

\* line 167: sports_data_service.fetch_player_props returns
FetchSportsData(id) ==
    /\ id \in DOMAIN procs
    /\ procs[id].pc = "sports_data"
    /\ \E result \in SportsDataResults :
          procs' = [procs EXCEPT ![id].sports_data_raw = result, ![id].pc = "fanduel"]
    /\ UNCHANGED <<cache, lastRefresh, stats, nextGen, genLog, returned, completed,
                   refreshed>>
    /\ UNCHANGED <<builderVars, searchVars, otherVars>>

\* line 168: fanduel_service.fetch_fanduel_odds returns
FetchFanDuel(id) ==
    /\ id \in DOMAIN procs
    /\ procs[id].pc = "fanduel"
    /\ \E result \in FanDuelResults :
          procs' = [procs EXCEPT ![id].fanduel_props = result, ![id].pc = "oddsjam"]
    /\ UNCHANGED <<cache, lastRefresh, stats, nextGen, genLog, returned, completed,
                   refreshed>>
    /\ UNCHANGED <<builderVars, searchVars, otherVars>>

\* line 169 on to line 220, then get_parlays lines 71-79: the last fetch returns and
\* the call runs to its end
FinishGetParlays(id) ==
    /\ id \in DOMAIN procs
    /\ procs[id].pc = "oddsjam" /\ procs[id].op = "get"
    /\ \E oddsjam_props \in OddsJamResults :
       \E o \in GenerateOutcomes(id, procs[id].sport, procs[id].tier,
                                 procs[id].sports_data_raw, procs[id].fanduel_props,
                                 oddsjam_props) :
          IF o.raised
          THEN /\ stats' = [stats EXCEPT !.failed_requests = @ + 1]
               /\ returned' = [id |-> id, op |-> "get", sport |-> procs[id].sport,
                               tier |-> procs[id].tier, kind |-> "raised",
                               responses |-> <<>>]
               /\ completed' = Append(completed, Completion(id, "raised"))
               /\ UNCHANGED genLog
          ELSE /\ stats' = [stats EXCEPT
                              !.total_parlays_generated = @ + Len(o.parlays),
                              !.successful_requests = @ + 1]
               /\ returned' = [id |-> id, op |-> "get", sport |-> procs[id].sport,
                               tier |-> procs[id].tier, kind |-> "miss",
                               responses |-> Responses(o.parlays)]
               /\ completed' = Append(completed, Completion(id, "miss"))
               /\ genLog' = RecordGeneration(genLog,
                                {CacheKey(procs[id].sport, procs[id].tier)}, o.parlays)
    /\ procs' = Finished(id)
    /\ UNCHANGED <<cache, lastRefresh, nextGen, refreshed>>
    /\ UNCHANGED <<builderVars, searchVars, otherVars>>

\* line 169 on to line 220, then refresh_parlays lines 94-108: the last fetch returns
\* and the call runs to its end
FinishRefresh(id) ==
    /\ id \in DOMAIN procs
    /\ procs[id].pc = "oddsjam" /\ procs[id].op = "refresh"
    /\ \E oddsjam_props \in OddsJamResults :
       \E o \in GenerateOutcomes(id, procs[id].sport, None,
                                 procs[id].sports_data_raw, procs[id].fanduel_props,
                                 oddsjam_props) :
          LET sport == procs[id].sport
          IN IF o.raised
             THEN /\ returned' = [id |-> id, op |-> "refresh", sport |-> sport,
                                  tier |-> None, kind |-> "raised", responses |-> <<>>]
                  /\ completed' = Append(completed, Completion(id, "raised"))
                  /\ cache' = AfterFailure(cache, sport)
                  /\ UNCHANGED <<lastRefresh, stats, genLog, refreshed>>
             ELSE /\ stats' = [stats EXCEPT !.total_parlays_generated = @ + Len(o.parlays)]
                  /\ cache' = WriteSport(cache, sport, o.parlays)
                  /\ lastRefresh' = [s \in DOMAIN lastRefresh \cup {sport} |->
                                        IF s = sport THEN Now ELSE lastRefresh[s]]
                  /\ returned' = [id |-> id, op |-> "refresh", sport |-> sport,
                                  tier |-> None, kind |-> "wrote", responses |-> <<>>]
                  /\ completed' = Append(completed, Completion(id, "wrote"))
                  /\ refreshed' = [s \in DOMAIN refreshed \cup {sport} |->
                                      IF s = sport THEN o.parlays ELSE refreshed[s]]
                  /\ genLog' = RecordGeneration(genLog,
                                   {CacheKey(sport, t) : t \in TierSet \cup {None}},
                                   o.parlays)
    /\ procs' = Finished(id)
    /\ UNCHANGED nextGen
    /\ UNCHANGED <<builderVars, searchVars, otherVars>>

\* SchedulerService._daily_cleanup, lines 114-124
DailyCleanup ==
    /\ cache' = <<>>
    /\ stats' = ZeroStats
    /\ genLog' = <<>>
    /\ refreshed' = <<>>
    /\ UNCHANGED <<lastRefresh, procs, nextGen, returned, completed>>
    /\ UNCHANGED <<builderVars, searchVars, otherVars>>

NextService ==
    \/ \E sport \in Sports, tier \in TierSet \cup {None} : GetParlaysHit(sport, tier)
    \/ \E sport \in Sports, tier \in TierSet \cup {None} : GetParlaysMiss(sport, tier)
    \/ \E sport \in Sports : RefreshParlays(sport)
    \/ \E id \in 1..MaxCalls : FetchSportsData(id)
    \/ \E id \in 1..MaxCalls : FetchFanDuel(id)
    \/ \E id \in 1..MaxCalls : FinishGetParlays(id)
    \/ \E id \in 1..MaxCalls : FinishRefresh(id)
    \/ DailyCleanup

SpecService == InitService /\ [][NextService]_vars

(***************************************************************************)
(* One fetch of a provider: SportsDataService.fetch_player_props,          *)
(* OddsJamService.fetch_player_props or FanDuelService.fetch_fanduel_odds, *)
(* stepped from await to await                                             *)
(***************************************************************************)
Providers == {"sportsdata", "oddsjam", "fanduel"}

SportTypes == {"NFL", "MLB", "NBA", "NHL"}

\* values of the provider's API key: unset, the two placeholders, a real key
ApiKeys == {"", "demo_key", "your_oddsjam_key_here", "key"}

FetchedProp(player, prop_type) == [player_name |-> player, prop_type |-> prop_type]

\* SportsDataService._get_mock_props
MockDataset(sport) ==
    IF sport = "NFL"
    THEN << FetchedProp("Josh Allen", "passing_yards"),
            FetchedProp("Stefon Diggs", "receiving_yards") >>
    ELSE IF sport = "MLB"
    THEN << FetchedProp("Aaron Judge", "home_runs") >>
    ELSE <<>>

\* what the transformation of a 200 response can give
TransformedLists ==
    { <<>>,
      << FetchedProp("Live Player", "hits") >>,
      << FetchedProp("Josh Allen", "passing_yards"),
         FetchedProp("Stefon Diggs", "receiving_yards") >> }

\* "if not self.api_key or self.api_key == ...": the fetch is not attempted
KeyMissing(provider, api_key) ==
    CASE provider = "sportsdata" -> api_key \in {"", "demo_key"}
      [] provider = "oddsjam" -> api_key \in {"", "your_oddsjam_key_here"}
      [] OTHER -> FALSE

\* _get_props_endpoint and FanDuelService._get_sport_key raise ValueError
SportUnsupported(provider, sport) ==
    provider \in {"sportsdata", "fanduel"} /\ sport \notin {"NFL", "MLB"}

\* "except Exception" without the handler of FanDuelService
ExceptionCaughtButFanDuel(provider) == provider # "fanduel"

\* "except Exception": every exception raised inside the try is caught
ExceptionCaught(provider) == TRUE

\* what a failure degrades to: the mock dataset after one more await, or []
Degraded(f) ==
    IF f.provider = "sportsdata"
    THEN [f EXCEPT !.pc = "mock", !.failed = TRUE]
    ELSE [f EXCEPT !.pc = "done", !.failed = TRUE, !.result = <<>>]

\* an exception raised inside the try
OnException(f) ==
    IF ExceptionCaught(f.provider) THEN Degraded(f)
    ELSE [f EXCEPT !.pc = "raised", !.failed = TRUE]

InitFetch ==
    /\ fetch \in [provider : Providers, sport : SportTypes, api_key : ApiKeys,
                  pc : {"start"}, requests : {0}, status : {0}, failed : {FALSE},
                  result : {<<>>}]
    /\ calc = <<>> /\ sched = <<>> /\ run = <<>>
    /\ props = <<>> /\ tierArg = None /\ pc = "off" /\ tiersLeft = <<>>
    /\ curTier = None /\ eligible = <<>> /\ i = 0 /\ attempt = 0
    /\ genResult = <<>> /\ parlays = <<>> /\ allParlays = <<>> /\ genCalls = 0
    /\ firstOk = 0 /\ lastSelected = 0 /\ tierDone = <<>>
    /\ fTarget = 0 /\ fPool = <<>> /\ fMaxLegs = 0 /\ fSorted = <<>> /\ fPc = "off"
    /\ fNumLegs = 0 /\ fCombo = <<>> /\ fBestDiff = <<>> /\ fBest = <<>>
    /\ fEnumerated = 0
    /\ cache = <<>> /\ lastRefresh = <<>> /\ stats = <<>> /\ procs = <<>>
    /\ returned = <<>> /\ nextGen = 0 /\ genLog = <<>>
    /\ completed = <<>> /\ refreshed = <<>>

\* the test of the API key before any request
FetchStart ==
    /\ fetch.pc = "start"
    /\ fetch' = IF KeyMissing(fetch.provider, fetch.api_key)
                THEN (IF fetch.provider = "sportsdata"
                      THEN [fetch EXCEPT !.pc = "mock"]
                      ELSE [fetch EXCEPT !.pc = "done", !.result = <<>>])
                ELSE [fetch EXCEPT !.pc = "prepare"]
    /\ UNCHANGED <<builderVars, searchVars, serviceVars, calc, sched, run>>

\* get_session and the endpoint or sport key: the session may fail to open
FetchPrepare ==
    /\ fetch.pc = "prepare"
    /\ \E opened \in BOOLEAN :
          fetch' = IF opened /\ ~SportUnsupported(fetch.provider, fetch.sport)
                   THEN [fetch EXCEPT !.pc = "request"]
                   ELSE OnException(fetch)
    /\ UNCHANGED <<builderVars, searchVars, serviceVars, calc, sched, run>>

\* session.get: a response with a status, or an exception
FetchRequest ==
    /\ fetch.pc = "request"
    /\ \E outcome \in {200, 404, 500, -1} :
          fetch' = IF outcome = -1
                   THEN OnException([fetch EXCEPT !.requests = @ + 1])
                   ELSE [fetch EXCEPT !.requests = @ + 1, !.status = outcome,
                                      !.pc = "body"]
    /\ UNCHANGED <<builderVars, searchVars, serviceVars, calc, sched, run>>

\* response.json() and the transformation, or response.text() of a non-200
FetchBody ==
    /\ fetch.pc = "body"
    /\ \/ fetch' = OnException(fetch)
       \/ /\ fetch.status = 200
          /\ \E list \in TransformedLists :
                fetch' = [fetch EXCEPT !.pc = "done", !.result = list]
       \/ /\ fetch.status # 200
          /\ fetch' = Degraded(fetch)
    /\ UNCHANGED <<builderVars, searchVars, serviceVars, calc, sched, run>>

\* _get_mock_props after its sleep
FetchMock ==
    /\ fetch.pc = "mock"
    /\ fetch' = [fetch EXCEPT !.pc = "done", !.result = MockDataset(fetch.sport)]
    /\ UNCHANGED <<builderVars, searchVars, serviceVars, calc, sched, run>>

NextFetch ==
    \/ FetchStart
    \/ FetchPrepare
    \/ FetchRequest
    \/ FetchBody
    \/ FetchMock

SpecFetch == InitFetch /\ [][NextFetch]_vars

(***************************************************************************)
(* Calls of the functions that keep no state: the conversion loop of       *)
(* _generate_fresh_parlays and PropAnalyzer.calculate_confidence_score     *)
(***************************************************************************)
MaxBatch == 3

\* the dictionaries a batch can hold: known, upper-case, unknown and empty types
BatchRecords ==
    { RawProp("P1", "T1", "hits", 100, 100),
      RawProp("P2", "T1", "HITS", 100, 150),
      RawProp("P3", "T2", "home_runs", 150, 100),
      RawProp("P4", "T2", "bogus", 100, 100),
      RawProp("P5", "T3", "", 100, 100) }

Batches == UNION {[1..n -> BatchRecords] : n \in 0..MaxBatch}

ConvertCalls ==
    [fn : {"convert"}, pc : {"called"},
     args : [sports_data_raw : Batches, fanduel_props : FanDuelResults,
             oddsjam_props : OddsJamResults],
     outcome : {<<>>}]

RateSteps == 20

\* hit rates and form weights 0, 1/RateSteps, ..., 1
Rates == {<<k, RateSteps>> : k \in 0..RateSteps}

ConfidenceCalls ==
    [fn : {"calculate_confidence_score"}, pc : {"called"},
     args : [historical_hit_rate : Rates, recent_form_weight : Rates],
     outcome : {<<>>}]

MaxRecords == 3

\* the rows a frame can hold: two players, two prop types, inside and outside
\* the window of WindowDays, hit or miss
WindowDays == 30

HistoryRows ==
    [player_name : {"P1", "P2"}, prop_type : {"hits", "home_runs"},
     age : {10, 40}, hit : {0, 1}]

Histories ==
    {NoFrame} \cup {Frame(rows) : rows \in UNION {[1..n -> HistoryRows] :
                                                    n \in 0..MaxRecords}}

HitRateCalls ==
    [fn : {"get_player_hit_rate"}, pc : {"called"},
     args : [historical_data : Histories, player_name : {"P1"},
             prop_type : {"hits"}, days_back : {WindowDays}],
     outcome : {<<>>}]

MaxGames == 3

MaxGamesBack == 3

\* the games of P1 on different days, in any order in the frame, each a hit or a miss
GameRows ==
    UNION {{[k \in 1..n |-> [player_name |-> "P1", prop_type |-> "hits",
                             age |-> ages[k], hit |-> hits[k]]] :
               ages \in {a \in [1..n -> 1..MaxGames] :
                            \A j, k \in 1..n : a[j] = a[k] => j = k},
               hits \in [1..n -> {0, 1}]} : n \in 0..MaxGames}

\* rows of another player and another prop type, recent hits
OtherRows ==
    << [player_name |-> "P2", prop_type |-> "hits", age |-> 0, hit |-> 1],
       [player_name |-> "P1", prop_type |-> "home_runs", age |-> 0, hit |-> 1] >>

GameHistories ==
    {NoFrame} \cup {Frame(rows) : rows \in GameRows}
              \cup {Frame(OtherRows \o rows) : rows \in GameRows}

FormWeightCalls ==
    [fn : {"get_recent_form_weight"}, pc : {"called"},
     args : [historical_data : GameHistories, player_name : {"P1"},
             prop_type : {"hits"}, games_back : 1..MaxGamesBack],
     outcome : {<<>>}]

InitCalc ==
    /\ \/ calc \in ConvertCalls
       \/ calc \in ConfidenceCalls
       \/ calc \in HitRateCalls
       \/ calc \in FormWeightCalls
    /\ fetch = <<>> /\ sched = <<>> /\ run = <<>>
    /\ props = <<>> /\ tierArg = None /\ pc = "off" /\ tiersLeft = <<>>
    /\ curTier = None /\ eligible = <<>> /\ i = 0 /\ attempt = 0
    /\ genResult = <<>> /\ parlays = <<>> /\ allParlays = <<>> /\ genCalls = 0
    /\ firstOk = 0 /\ lastSelected = 0 /\ tierDone = <<>>
    /\ fTarget = 0 /\ fPool = <<>> /\ fMaxLegs = 0 /\ fSorted = <<>> /\ fPc = "off"
    /\ fNumLegs = 0 /\ fCombo = <<>> /\ fBestDiff = <<>> /\ fBest = <<>>
    /\ fEnumerated = 0
    /\ cache = <<>> /\ lastRefresh = <<>> /\ stats = <<>> /\ procs = <<>>
    /\ returned = <<>> /\ nextGen = 0 /\ genLog = <<>>
    /\ completed = <<>> /\ refreshed = <<>>

\* lines 171-197 of _generate_fresh_parlays on the three fetched lists
ConvertBatch ==
    /\ calc.fn = "convert" /\ calc.pc = "called"
    /\ calc' = [calc EXCEPT
                  !.pc = "done",
                  !.outcome = [raised |-> FALSE,
                               all_props |-> CombinedProps(calc.args.sports_data_raw,
                                                           calc.args.fanduel_props,
                                                           calc.args.oddsjam_props),
                               log |-> ConversionLog(calc.args.sports_data_raw,
                                                     calc.args.fanduel_props,
                                                     calc.args.oddsjam_props)]]
    /\ UNCHANGED <<builderVars, searchVars, serviceVars, fetch, sched, run>>

\* lines 133-146 of calculate_confidence_score on the two factors the
\* historical data gave
CalculateConfidenceScore ==
    /\ calc.fn = "calculate_confidence_score" /\ calc.pc = "called"
    /\ calc' = [calc EXCEPT
                  !.pc = "done",
                  !.outcome = ConfidenceOf(calc.args.historical_hit_rate,
                                           calc.args.recent_form_weight)]
    /\ UNCHANGED <<builderVars, searchVars, serviceVars, fetch, sched, run>>

\* get_player_hit_rate on the data of the call
GetPlayerHitRate ==
    /\ calc.fn = "get_player_hit_rate" /\ calc.pc = "called"
    /\ calc' = [calc EXCEPT
                  !.pc = "done",
                  !.outcome = PlayerHitRate(calc.args.historical_data,
                                            calc.args.player_name,
                                            calc.args.prop_type,
                                            calc.args.days_back)]
    /\ UNCHANGED <<builderVars, searchVars, serviceVars, fetch, sched, run>>

\* get_recent_form_weight on the data of the call; the outcome keeps the games
\* used and the weight of each with the value returned
GetRecentFormWeight ==
    /\ calc.fn = "get_recent_form_weight" /\ calc.pc = "called"
    /\ LET recent_performance == RecentPerformance(calc.args.historical_data,
                                                   calc.args.player_name,
                                                   calc.args.prop_type,
                                                   calc.args.games_back)
       IN calc' = [calc EXCEPT
                     !.pc = "done",
                     !.outcome = [recent_performance |-> recent_performance,
                                  weights |-> GameWeights(recent_performance,
                                                          calc.args.games_back),
                                  value |-> FormWeight(recent_performance,
                                                       calc.args.games_back)]]
    /\ UNCHANGED <<builderVars, searchVars, serviceVars, fetch, sched, run>>

NextCalc ==
    \/ GetPlayerHitRate
    \/ GetRecentFormWeight
    \/ ConvertBatch
    \/ CalculateConfidenceScore

SpecCalc == InitCalc /\ [][NextCalc]_vars

(***************************************************************************)
(* Python floats: IEEE 754 binary64 with round-half-even, computed on      *)
(* naturals held as little-endian sequences of limbs.  The operations are  *)
(* functions, so that each argument is evaluated once.                     *)
(***************************************************************************)
LimbBits == 15

Base == 2^LimbBits

MantissaBits == 53

Big == Seq(Nat)

Floats == [sign : {-1, 1}, man : Big, exp : Int]

NatToBig[n \in Nat] ==
    IF n = 0 THEN <<>> ELSE <<n % Base>> \o NatToBig[n \div Base]

BigToNat[a \in Big] ==
    IF a = <<>> THEN 0 ELSE a[1] + Base * BigToNat[Tail(a)]

\* without the high limbs that are 0
BigNorm[a \in Big] ==
    IF a = <<>> THEN <<>>
    ELSE IF a[Len(a)] = 0 THEN BigNorm[SubSeq(a, 1, Len(a) - 1)] ELSE a

Limb(a) == IF a = <<>> THEN 0 ELSE a[1]

Rest(a) == IF a = <<>> THEN <<>> ELSE Tail(a)

\* a + b + carry
BigAddC[a \in Big, b \in Big, carry \in Nat] ==
    IF a = <<>> /\ b = <<>> THEN (IF carry = 0 THEN <<>> ELSE <<carry>>)
    ELSE <<(Limb(a) + Limb(b) + carry) % Base>>
         \o BigAddC[Rest(a), Rest(b), (Limb(a) + Limb(b) + carry) \div Base]

BigSubB[a \in Big, b \in Big, borrow \in Nat] ==
    IF a = <<>> THEN <<>>
    ELSE IF a[1] - Limb(b) - borrow < 0
    THEN <<a[1] - Limb(b) - borrow + Base>> \o BigSubB[Tail(a), Rest(b), 1]
    ELSE <<a[1] - Limb(b) - borrow>> \o BigSubB[Tail(a), Rest(b), 0]

\* a - b for a >= b
BigSub[a \in Big, b \in Big] == BigNorm[BigSubB[a, b, 0]]

BigCmpFrom[a \in Big, b \in Big, pos \in Nat] ==
    IF pos = 0 THEN 0
    ELSE IF a[pos] < b[pos] THEN -1
    ELSE IF a[pos] > b[pos] THEN 1
    ELSE BigCmpFrom[a, b, pos - 1]

\* -1, 0 or 1 as a < b, a = b or a > b
BigCmp[a \in Big, b \in Big] ==
    IF Len(a) < Len(b) THEN -1
    ELSE IF Len(a) > Len(b) THEN 1
    ELSE BigCmpFrom[a, b, Len(a)]

BigTimesC[a \in Big, factor \in Nat, carry \in Nat] ==
    IF a = <<>> THEN (IF carry = 0 THEN <<>> ELSE <<carry>>)
    ELSE <<(a[1] * factor + carry) % Base>>
         \o BigTimesC[Tail(a), factor, (a[1] * factor + carry) \div Base]

\* a * factor for factor < Base
BigTimes[a \in Big, factor \in Nat] ==
    IF factor = 0 THEN <<>> ELSE BigTimesC[a, factor, 0]

\* a * Base
BigUpLimb[a \in Big] == IF a = <<>> THEN <<>> ELSE <<0>> \o a

BigMul[a \in Big, b \in Big] ==
    IF a = <<>> \/ b = <<>> THEN <<>>
    ELSE BigAddC[BigTimes[a, b[1]], BigUpLimb[BigMul[a, Tail(b)]], 0]

\* a * 2^n
BigShl[a \in Big, n \in Nat] ==
    IF a = <<>> THEN <<>>
    ELSE [k \in 1..(n \div LimbBits) |-> 0] \o BigTimes[a, 2^(n % LimbBits)]

BigDivSmallFrom[a \in Big, divisor \in Nat, pos \in Nat, carry \in Nat] ==
    IF pos = 0 THEN <<>>
    ELSE BigDivSmallFrom[a, divisor, pos - 1, (carry * Base + a[pos]) % divisor]
         \o <<(carry * Base + a[pos]) \div divisor>>

\* floor(a / divisor) for divisor <= Base
BigDivSmall[a \in Big, divisor \in Nat] ==
    BigNorm[BigDivSmallFrom[a, divisor, Len(a), 0]]

\* floor(a / 2^n)
BigShr[a \in Big, n \in Nat] ==
    IF n \div LimbBits >= Len(a) THEN <<>>
    ELSE BigDivSmall[SubSeq(a, n \div LimbBits + 1, Len(a)), 2^(n % LimbBits)]

BitLenNat[n \in Nat] == IF n = 0 THEN 0 ELSE 1 + BitLenNat[n \div 2]

BigBitLen[a \in Big] ==
    IF a = <<>> THEN 0 ELSE LimbBits * (Len(a) - 1) + BitLenNat[a[Len(a)]]

\* long division, one quotient bit a step, until quot has MantissaBits bits:
\* left is the remainder so far, doubled
DivBits[left \in Big, top \in Big, quot \in Big] ==
    IF BigBitLen[quot] = MantissaBits THEN quot
    ELSE IF BigCmp[left, top] >= 0
    THEN DivBits[BigTimes[BigSub[left, top], 2], top, BigAddC[BigTimes[quot, 2], <<>>, 1]]
    ELSE DivBits[BigTimes[left, 2], top, BigTimes[quot, 2]]

\* floor(num / den): by limbs for a divisor of one limb, else by bits, the
\* quotient having MantissaBits bits
BigQuot[num \in Big, den \in Big] ==
    IF Len(den) = 1 THEN BigDivSmall[num, den[1]]
    ELSE DivBits[num, BigShl[den, MantissaBits - 1], <<>>]

FloatZero == [sign |-> 1, man |-> <<>>, exp |-> 0]

\* a mantissa of one bit too many after rounding up is halved
Normal[sign \in {-1, 1}, man \in Big, exp \in Int] ==
    IF BigBitLen[man] > MantissaBits
    THEN [sign |-> sign, man |-> BigShr[man, 1], exp |-> exp + 1]
    ELSE [sign |-> sign, man |-> man, exp |-> exp]

\* half is -1, 0 or 1 as the remainder is below, at or above half the divisor
RoundUp[sign \in {-1, 1}, quot \in Big, exp \in Int, half \in {-1, 0, 1}] ==
    IF half > 0 \/ (half = 0 /\ quot[1] % 2 = 1)
    THEN Normal[sign, BigAddC[quot, <<>>, 1], exp]
    ELSE Normal[sign, quot, exp]

RoundQuot[sign \in {-1, 1}, num \in Big, den \in Big, exp \in Int, quot \in Big] ==
    RoundUp[sign, quot, exp, BigCmp[BigTimes[BigSub[num, BigMul[quot, den]], 2], den]]

ScaledUp(a, shift) == IF shift > 0 THEN BigShl[a, shift] ELSE a

\* num / den * 2^shift is in [2^52, 2^53)
RoundAt[sign \in {-1, 1}, num \in Big, den \in Big, exp \in Int, shift \in Int] ==
    RoundQuot[sign, ScaledUp(num, shift), ScaledUp(den, -shift), exp - shift,
              IF shift >= 0 THEN BigQuot[BigShl[num, shift], den]
              ELSE IF Len(den) = 1 THEN BigDivSmall[BigShr[num, -shift], den[1]]
              ELSE BigQuot[num, BigShl[den, -shift]]]

\* the shift that brings num / den into [2^52, 2^53)
Scale[num \in Big, den \in Big] ==
    LET shift == MantissaBits - 1 - (BigBitLen[num] - BigBitLen[den])
    IN IF BigCmp[ScaledUp(num, shift),
                 BigShl[ScaledUp(den, -shift), MantissaBits - 1]] < 0
       THEN shift + 1 ELSE shift

\* the float nearest to sign * (num / den) * 2^exp, ties to the even mantissa
Round[sign \in {-1, 1}, num \in Big, den \in Big, exp \in Int] ==
    IF num = <<>> THEN FloatZero
    ELSE RoundAt[sign, num, den, exp, Scale[num, den]]

One == <<1>>

\* float(n) for an integer n
FloatOfInt[n \in Int] ==
    IF n < 0 THEN Round[-1, NatToBig[-n], One, 0] ELSE Round[1, NatToBig[n], One, 0]

\* a float literal num / den
FloatOfRatio[num \in Nat, den \in Nat] == Round[1, NatToBig[num], NatToBig[den], 0]

FloatIsZero(x) == x.man = <<>>

FloatNeg[x \in Floats] == [x EXCEPT !.sign = -x.sign]

FloatAbs[x \in Floats] == [x EXCEPT !.sign = 1]

FloatMul[x \in Floats, y \in Floats] ==
    Round[x.sign * y.sign, BigMul[x.man, y.man], One, x.exp + y.exp]

\* x / y for y # 0
FloatDiv[x \in Floats, y \in Floats] ==
    Round[x.sign * y.sign, x.man, y.man, x.exp - y.exp]

\* sx * a * 2^exp + sy * b * 2^exp
AddAligned[sx \in {-1, 1}, a \in Big, sy \in {-1, 1}, b \in Big, exp \in Int] ==
    IF sx = sy THEN Round[sx, BigAddC[a, b, 0], One, exp]
    ELSE IF BigCmp[a, b] = 0 THEN FloatZero
    ELSE IF BigCmp[a, b] > 0 THEN Round[sx, BigSub[a, b], One, exp]
    ELSE Round[sy, BigSub[b, a], One, exp]

FloatAdd[x \in Floats, y \in Floats] ==
    IF FloatIsZero(x) THEN y
    ELSE IF FloatIsZero(y) THEN x
    ELSE IF x.exp < y.exp
    THEN AddAligned[x.sign, x.man, y.sign, BigShl[y.man, y.exp - x.exp], x.exp]
    ELSE AddAligned[x.sign, BigShl[x.man, x.exp - y.exp], y.sign, y.man, y.exp]

FloatSub[x \in Floats, y \in Floats] == FloatAdd[x, FloatNeg[y]]

FloatSign[x \in Floats] == IF FloatIsZero(x) THEN 0 ELSE x.sign

\* x < y
FloatLess[x \in Floats, y \in Floats] == FloatSign[FloatSub[x, y]] = -1

FloatEq[x \in Floats, y \in Floats] == FloatSign[FloatSub[x, y]] = 0

\* int(x): truncation toward zero
FloatToInt[x \in Floats] ==
    IF FloatIsZero(x) THEN 0
    ELSE IF x.exp >= 0 THEN x.sign * BigToNat[BigShl[x.man, x.exp]]
    ELSE x.sign * BigToNat[BigShr[x.man, -x.exp]]

(***************************************************************************)
(* odds_math.py in float arithmetic: a call returns a value or raises      *)
(***************************************************************************)
Returns(value) == [kind |-> "returns", value |-> value, error |-> "none"]

Raises(error) == [kind |-> "raises", value |-> 0, error |-> error]

\* lines 9-12: the float, for odds other than 0
AmericanToDecimalFloat[american_odds \in Int] ==
    IF american_odds > 0
    THEN FloatAdd[FloatDiv[FloatOfInt[american_odds], FloatOfInt[100]], FloatOfInt[1]]
    ELSE FloatAdd[FloatDiv[FloatOfInt[100], FloatOfInt[-american_odds]], FloatOfInt[1]]

\* lines 7-12: 100 / abs(0) is a division by zero
AmericanToDecimalCall(american_odds) ==
    IF american_odds = 0 THEN Raises("ZeroDivisionError")
    ELSE Returns(AmericanToDecimalFloat[american_odds])

\* A conversion that takes the decimal odds themselves for the profit
decimal_to_american_of_stake(decimal_odds) ==
    IF ~FloatLess[decimal_odds, FloatOfInt[2]]
    THEN Returns(FloatToInt[FloatMul[decimal_odds, FloatOfInt[100]]])
    ELSE IF FloatIsZero(FloatSub[decimal_odds, FloatOfInt[1]])
    THEN Raises("ZeroDivisionError")
    ELSE Returns(FloatToInt[FloatDiv[FloatOfInt[-100],
                                     FloatSub[decimal_odds, FloatOfInt[1]]]])

\* lines 14-19
decimal_to_american(decimal_odds) ==
    IF ~FloatLess[decimal_odds, FloatOfInt[2]]
    THEN Returns(FloatToInt[FloatMul[FloatSub[decimal_odds, FloatOfInt[1]],
                                     FloatOfInt[100]]])
    ELSE IF FloatIsZero(FloatSub[decimal_odds, FloatOfInt[1]])
    THEN Raises("ZeroDivisionError")
    ELSE Returns(FloatToInt[FloatDiv[FloatOfInt[-100],
                                     FloatSub[decimal_odds, FloatOfInt[1]]]])

\* lines 24-26: combined_decimal *= odds, from 1.0, in list order
CombinedFrom[combined_decimal \in Floats, individual_odds \in Seq(Int)] ==
    IF individual_odds = <<>> THEN combined_decimal
    ELSE CombinedFrom[FloatMul[combined_decimal,
                               AmericanToDecimalFloat[Head(individual_odds)]],
                      Tail(individual_odds)]

\* lines 21-27
calculate_parlay_odds(individual_odds) ==
    IF \E k \in 1..Len(individual_odds) : individual_odds[k] = 0
    THEN Raises("ZeroDivisionError")
    ELSE decimal_to_american(CombinedFrom[FloatOfInt[1], individual_odds])

\* parlay_builder.py lines 199-202: decimal_odds *= ..., from 1.0, in leg order
TotalDecimalFrom[decimal_odds \in Floats, leg_odds \in Seq(Int)] ==
    IF leg_odds = <<>> THEN decimal_odds
    ELSE TotalDecimalFrom[
            FloatMul[decimal_odds,
                     IF Head(leg_odds) > 0
                     THEN FloatAdd[FloatDiv[FloatOfInt[Head(leg_odds)],
                                            FloatOfInt[100]],
                                   FloatOfInt[1]]
                     ELSE FloatAdd[FloatDiv[FloatOfInt[100],
                                            FloatOfInt[Abs(Head(leg_odds))]],
                                   FloatOfInt[1]]],
            Tail(leg_odds)]

\* parlay_builder.py lines 205-208 with decimal_odds > 2.0 for decimal_odds >= 2.0
TotalOddsOfAboveTwo(decimal_odds) ==
    IF FloatLess[FloatOfInt[2], decimal_odds]
    THEN Returns(FloatToInt[FloatMul[FloatSub[decimal_odds, FloatOfInt[1]],
                                     FloatOfInt[100]]])
    ELSE IF FloatIsZero(FloatSub[decimal_odds, FloatOfInt[1]])
    THEN Raises("ZeroDivisionError")
    ELSE Returns(FloatToInt[FloatDiv[FloatOfInt[-100],
                                     FloatSub[decimal_odds, FloatOfInt[1]]]])

\* parlay_builder.py lines 205-208: the American odds of the product
TotalOddsOf(decimal_odds) ==
    IF ~FloatLess[decimal_odds, FloatOfInt[2]]
    THEN Returns(FloatToInt[FloatMul[FloatSub[decimal_odds, FloatOfInt[1]],
                                     FloatOfInt[100]]])
    ELSE IF FloatIsZero(FloatSub[decimal_odds, FloatOfInt[1]])
    THEN Raises("ZeroDivisionError")
    ELSE Returns(FloatToInt[FloatDiv[FloatOfInt[-100],
                                     FloatSub[decimal_odds, FloatOfInt[1]]]])

\* parlay_builder.py lines 194-208, _calculate_total_odds in floats; leg_odds are
\* the odds of the legs, in order
CalculateTotalOddsCall(leg_odds) ==
    IF \E k \in 1..Len(leg_odds) : leg_odds[k] = 0
    THEN Raises("ZeroDivisionError")
    ELSE TotalOddsOf(TotalDecimalFrom[FloatOfInt[1], leg_odds])

\* a float given as a signed ratio
FloatOfSigned[num \in Int, den \in Nat] ==
    IF num < 0 THEN FloatNeg[FloatOfRatio[-num, den]] ELSE FloatOfRatio[num, den]

\* lines 61-101: base_odds_map, each line in halves, in the order of the dict
base_odds_map ==
    [hits            |-> << <<1, 180>>, <<3, 240>>, <<5, 400>> >>,
     home_runs       |-> << <<1, 240>>, <<3, 800>> >>,
     rbis            |-> << <<1, 160>>, <<3, 300>>, <<5, 500>> >>,
     strikeouts      |-> << <<1, 140>>, <<11, 180>>, <<15, 300>> >>,
     passing_yards   |-> << <<499, 110>>, <<599, 160>>, <<699, 250>> >>,
     rushing_yards   |-> << <<99, 120>>, <<159, 200>>, <<199, 300>> >>,
     receiving_yards |-> << <<99, 110>>, <<139, 160>>, <<179, 250>> >>,
     receptions      |-> << <<7, 120>>, <<11, 180>>, <<15, 300>> >>]

PropLines == Seq(Nat \X Nat)

LineOf(entry) == FloatOfRatio[entry[1], 2]

DefaultBaseOdds == 200

LowestOdds == -500

HighestOdds == 2000

\* abs(x - line) for the line x of an entry
Distance[entry \in Nat \X Nat, line \in Floats] == FloatAbs[FloatSub[LineOf(entry), line]]

\* min(prop_lines.keys(), key=lambda x: abs(x - line)): the first of the closest
ClosestFrom[prop_lines \in PropLines, line \in Floats, pos \in Nat, best \in Nat] ==
    IF pos > Len(prop_lines) THEN best
    ELSE IF FloatLess[Distance[prop_lines[pos], line], Distance[prop_lines[best], line]]
    THEN ClosestFrom[prop_lines, line, pos + 1, pos]
    ELSE ClosestFrom[prop_lines, line, pos + 1, best]

\* lines 112-119: the odds of the closest line, adjusted for line_diff
FromClosest[base_odds \in Int, line_diff \in Floats] ==
    IF FloatSign[line_diff] = 1
    THEN base_odds + FloatToInt[FloatMul[line_diff, FloatOfInt[50]]]
    ELSE base_odds - FloatToInt[FloatMul[FloatAbs[line_diff], FloatOfInt[30]]]

\* lines 107-119: the odds of the line in the table of the prop type
OddsOfLine[prop_lines \in PropLines, line \in Floats, closest \in Nat] ==
    IF \E k \in 1..Len(prop_lines) : FloatEq[LineOf(prop_lines[k]), line]
    THEN prop_lines[CHOOSE k \in 1..Len(prop_lines) :
                       FloatEq[LineOf(prop_lines[k]), line]][2]
    ELSE FromClosest[prop_lines[closest][2],
                     FloatSub[line, LineOf(prop_lines[closest])]]

\* lines 104-119: the base odds of the prop type and line
BaseOdds[prop_type \in STRING, line \in Floats] ==
    IF prop_type \notin DOMAIN base_odds_map THEN DefaultBaseOdds
    ELSE OddsOfLine[base_odds_map[prop_type], line,
                    ClosestFrom[base_odds_map[prop_type], line, 2, 1]]

\* The adjustment with the elif of line 126 taken as an else
HitRateAdjustedElse[base_odds \in Int, hit_rate \in Floats] ==
    IF FloatLess[FloatOfRatio[8, 10], hit_rate]
    THEN base_odds - FloatToInt[FloatMul[FloatSub[hit_rate, FloatOfRatio[8, 10]],
                                         FloatOfInt[500]]]
    ELSE base_odds + FloatToInt[FloatMul[FloatSub[FloatOfRatio[6, 10], hit_rate],
                                         FloatOfInt[800]]]

\* lines 122-129: the odds after the adjustment for the hit rate
HitRateAdjusted[base_odds \in Int, hit_rate \in Floats] ==
    IF FloatLess[FloatOfRatio[8, 10], hit_rate]
    THEN base_odds - FloatToInt[FloatMul[FloatSub[hit_rate, FloatOfRatio[8, 10]],
                                         FloatOfInt[500]]]
    ELSE IF FloatLess[hit_rate, FloatOfRatio[6, 10]]
    THEN base_odds + FloatToInt[FloatMul[FloatSub[FloatOfRatio[6, 10], hit_rate],
                                         FloatOfInt[800]]]
    ELSE base_odds

\* line 132: max(-500, min(base_odds, +2000))
Bounded[base_odds \in Int] ==
    IF base_odds > HighestOdds THEN HighestOdds
    ELSE IF base_odds < LowestOdds THEN LowestOdds
    ELSE base_odds

\* The estimate without the bounds of line 132
estimate_prop_odds_unbounded(prop_type, line, hit_rate) ==
    Returns(HitRateAdjusted[BaseOdds[prop_type, line], hit_rate])

\* lines 48-134
estimate_prop_odds(prop_type, line, hit_rate) ==
    Returns(Bounded[HitRateAdjusted[BaseOdds[prop_type, line], hit_rate]])

(***************************************************************************)
(* Calls of the functions of odds_math.py                                  *)
(***************************************************************************)
MaxOdds == 120

MaxOddsLen == 3

\* odds beyond the range -MaxOdds..MaxOdds
TypicalOdds ==
    {-2000, -1000, -500, -400, -380, -375, -250, -200, -150, -125,
     150, 175, 200, 250, 300, 400, 500, 1000}

AmericanInputs == (-MaxOdds..MaxOdds) \cup TypicalOdds

\* decimal odds given directly, as ratios: 1.0, 1.5, 2.0, 2.5, 0.5, 1.01, 1.1
DecimalRatios ==
    {<<1, 1>>, <<3, 2>>, <<2, 1>>, <<5, 2>>, <<1, 2>>, <<101, 100>>, <<11, 10>>}

ParlayOddsPool == {-400, -380, -375, -125, 0}

OddsLists == UNION {[1..n -> ParlayOddsPool] : n \in 0..MaxOddsLen}

LegOddsPool == {-400, -375, -125, -110, -100, 150, 0}

LegOddsLists == UNION {[1..n -> LegOddsPool] : n \in 0..MaxOddsLen}

EstimateTypes == {"hits", "home_runs", "passing_yards", "total_bases"}

\* lines as ratios: 0.5, 1.0, 1.5, 0.7, 249.5, 275.0, -1000.0, 100000.0
EstimateLines ==
    {<<1, 2>>, <<1, 1>>, <<3, 2>>, <<7, 10>>, <<499, 2>>, <<275, 1>>,
     <<-1000, 1>>, <<100000, 1>>}

\* hit rates 0.0, 0.1, ..., 1.0
EstimateHitRates == {<<k, 10>> : k \in 0..10}

\* origin is the odds a round trip began with, 0 for a call made directly
OddsCall(fn, args) ==
    [fn |-> fn, pc |-> "called", args |-> args, origin |-> 0, outcome |-> <<>>]

InitOdds ==
    /\ \/ \E american_odds \in AmericanInputs :
             calc = OddsCall("american_to_decimal", american_odds)
       \/ \E ratio \in DecimalRatios :
             calc = OddsCall("decimal_to_american", FloatOfRatio[ratio[1], ratio[2]])
       \/ \E individual_odds \in OddsLists :
             calc = OddsCall("calculate_parlay_odds", individual_odds)
       \/ \E leg_odds \in LegOddsLists :
             calc = OddsCall("calculate_total_odds", leg_odds)
       \/ \E prop_type \in EstimateTypes, line \in EstimateLines,
             hit_rate \in EstimateHitRates :
             calc = OddsCall("estimate_prop_odds",
                             [prop_type |-> prop_type, line |-> line,
                              hit_rate |-> hit_rate])
    /\ fetch = <<>> /\ sched = <<>> /\ run = <<>>
    /\ props = <<>> /\ tierArg = None /\ pc = "off" /\ tiersLeft = <<>>
    /\ curTier = None /\ eligible = <<>> /\ i = 0 /\ attempt = 0
    /\ genResult = <<>> /\ parlays = <<>> /\ allParlays = <<>> /\ genCalls = 0
    /\ firstOk = 0 /\ lastSelected = 0 /\ tierDone = <<>>
    /\ fTarget = 0 /\ fPool = <<>> /\ fMaxLegs = 0 /\ fSorted = <<>> /\ fPc = "off"
    /\ fNumLegs = 0 /\ fCombo = <<>> /\ fBestDiff = <<>> /\ fBest = <<>>
    /\ fEnumerated = 0
    /\ cache = <<>> /\ lastRefresh = <<>> /\ stats = <<>> /\ procs = <<>>
    /\ returned = <<>> /\ nextGen = 0 /\ genLog = <<>>
    /\ completed = <<>> /\ refreshed = <<>>

AmericanToDecimal ==
    /\ calc.fn = "american_to_decimal" /\ calc.pc = "called"
    /\ calc' = [calc EXCEPT !.pc = "done",
                            !.outcome = AmericanToDecimalCall(calc.args)]
    /\ UNCHANGED <<builderVars, searchVars, serviceVars, fetch, sched, run>>

\* the decimal odds american_to_decimal returned are handed to decimal_to_american
ConvertBack ==
    /\ calc.fn = "american_to_decimal" /\ calc.pc = "done"
    /\ calc.outcome.kind = "returns"
    /\ calc' = [fn |-> "decimal_to_american", pc |-> "called",
                args |-> calc.outcome.value, origin |-> calc.args,
                outcome |-> <<>>]
    /\ UNCHANGED <<builderVars, searchVars, serviceVars, fetch, sched, run>>

DecimalToAmerican ==
    /\ calc.fn = "decimal_to_american" /\ calc.pc = "called"
    /\ calc' = [calc EXCEPT !.pc = "done",
                            !.outcome = decimal_to_american(calc.args)]
    /\ UNCHANGED <<builderVars, searchVars, serviceVars, fetch, sched, run>>

CalculateParlayOdds ==
    /\ calc.fn = "calculate_parlay_odds" /\ calc.pc = "called"
    /\ calc' = [calc EXCEPT !.pc = "done",
                            !.outcome = calculate_parlay_odds(calc.args)]
    /\ UNCHANGED <<builderVars, searchVars, serviceVars, fetch, sched, run>>

CalculateTotalOdds ==
    /\ calc.fn = "calculate_total_odds" /\ calc.pc = "called"
    /\ calc' = [calc EXCEPT !.pc = "done",
                            !.outcome = CalculateTotalOddsCall(calc.args)]
    /\ UNCHANGED <<builderVars, searchVars, serviceVars, fetch, sched, run>>

\* The locals with the elif of line 126 taken as an else
EstimateLocalsElse(prop_type, line, hit_rate) ==
    [base_odds |-> BaseOdds[prop_type, line],
     adjusted  |-> HitRateAdjustedElse[BaseOdds[prop_type, line], hit_rate]]

\* base_odds as lines 104-119 leave it, and as lines 122-129 leave it
EstimateLocals(prop_type, line, hit_rate) ==
    [base_odds |-> BaseOdds[prop_type, line],
     adjusted  |-> HitRateAdjusted[BaseOdds[prop_type, line], hit_rate]]

EstimatePropOdds ==
    /\ calc.fn = "estimate_prop_odds" /\ calc.pc = "called"
    /\ calc' = [fn |-> calc.fn, pc |-> "done", args |-> calc.args,
                origin |-> calc.origin,
                outcome |-> estimate_prop_odds(
                               calc.args.prop_type,
                               FloatOfSigned[calc.args.line[1], calc.args.line[2]],
                               FloatOfRatio[calc.args.hit_rate[1],
                                            calc.args.hit_rate[2]]),
                locals |-> EstimateLocals(
                               calc.args.prop_type,
                               FloatOfSigned[calc.args.line[1], calc.args.line[2]],
                               FloatOfRatio[calc.args.hit_rate[1],
                                            calc.args.hit_rate[2]])]
    /\ UNCHANGED <<builderVars, searchVars, serviceVars, fetch, sched, run>>

NextOdds ==
    \/ AmericanToDecimal
    \/ ConvertBack
    \/ DecimalToAmerican
    \/ CalculateParlayOdds
    \/ CalculateTotalOdds
    \/ EstimatePropOdds

SpecOdds == InitOdds /\ [][NextOdds]_vars

(***************************************************************************)
(* SchedulerService: start, stop and trigger_manual_refresh on the         *)
(* event loop, and one _refresh_and_notify stepped from await to await.    *)
(* self.scheduler is the APScheduler library: the model keeps the calls    *)
(* made on it, each of which returns or raises.                            *)
(***************************************************************************)
MaxSchedulerCalls == 8

MaxRuns == 2

MaxResponses == 2

\* a call made on self.scheduler and whether it raised
LibraryCall(name, raised) == [call |-> name, raised |-> raised]

\* the calls lines 31-50 make when the one named by failing raises ("none": none
\* does), in order up to the one that raises
StartCalls(failing) ==
    IF failing = "add_job:parlay_refresh"
    THEN << LibraryCall("add_job:parlay_refresh", TRUE) >>
    ELSE IF failing = "add_job:daily_cleanup"
    THEN << LibraryCall("add_job:parlay_refresh", FALSE),
            LibraryCall("add_job:daily_cleanup", TRUE) >>
    ELSE << LibraryCall("add_job:parlay_refresh", FALSE),
            LibraryCall("add_job:daily_cleanup", FALSE),
            LibraryCall("start", failing = "start") >>

StartFailures == {"none", "add_job:parlay_refresh", "add_job:daily_cleanup", "start"}

\* start with is_running set before the calls on the scheduler
StartSetsRunningFirst(s, failing) ==
    IF s.is_running
    THEN [s EXCEPT !.last = [op |-> "start", result |-> "returned", changed |-> FALSE]]
    ELSE [s EXCEPT !.calls = @ \o StartCalls(failing),
                   !.is_running = TRUE,
                   !.last = [op |-> "start",
                             result |-> IF failing = "none" THEN "returned" ELSE "raised",
                             changed |-> failing = "none"]]

\* lines 24-56: start(); last.changed says that line 51 was reached
StartOf(s, failing) ==
    IF s.is_running
    THEN [s EXCEPT !.last = [op |-> "start", result |-> "returned", changed |-> FALSE]]
    ELSE [s EXCEPT !.calls = @ \o StartCalls(failing),
                   !.is_running = (failing = "none"),
                   !.last = [op |-> "start",
                             result |-> IF failing = "none" THEN "returned" ELSE "raised",
                             changed |-> failing = "none"]]

\* lines 58-68: stop(); a shutdown that raises is logged, not re-raised, and
\* line 65 is not reached
StopOf(s, raises) ==
    IF ~s.is_running
    THEN [s EXCEPT !.last = [op |-> "stop", result |-> "returned", changed |-> FALSE]]
    ELSE [s EXCEPT !.calls = Append(@, LibraryCall("shutdown", raises)),
                   !.is_running = raises,
                   !.last = [op |-> "stop", result |-> "returned",
                             changed |-> ~raises]]

\* lines 131-144: trigger_manual_refresh(); add_job is outside any try
TriggerOf(s, raises) ==
    IF s.is_running
    THEN [s EXCEPT !.calls = Append(@, LibraryCall("add_job:manual_refresh", raises)),
                   !.last = [op |-> "trigger_manual_refresh",
                             result |-> IF raises THEN "raised" ELSE "returned",
                             changed |-> FALSE]]
    ELSE [s EXCEPT !.last = [op |-> "trigger_manual_refresh", result |-> "returned",
                             changed |-> FALSE]]

\* the orders in which "for sport in SportType" can visit the sports
SportOrders ==
    {order \in [1..Cardinality(Sports) -> Sports] :
        \A j, k \in 1..Cardinality(Sports) : order[j] = order[k] => j = k}

\* overall_confidence of the GOAT parlays get_parlays returns, in whole percents
NotifyConfidence == 97

Confidences == {NotifyConfidence - 1, NotifyConfidence}

ResponseLists == UNION {[1..n -> Confidences] : n \in 0..MaxResponses}

Event(kind, sport, confidence) ==
    [kind |-> kind, sport |-> sport, confidence |-> confidence]

\* lines 95-103: the notifications of the responses of one sport, in order
RECURSIVE Notifications(_, _)
Notifications(sport, goat_parlays) ==
    IF goat_parlays = <<>> THEN <<>>
    ELSE (IF Head(goat_parlays) >= NotifyConfidence
          THEN << Event("sent", sport, Head(goat_parlays)) >>
          ELSE <<>>) \o Notifications(sport, Tail(goat_parlays))

IdleRun == [pc |-> "idle", order |-> <<>>, k |-> 0, events |-> <<>>,
            outcome |-> None, runs |-> 0]

\* the refresh of a sport that raised does not end refresh_all_parlays
RefreshedKeepGoing(r, sport, raises) ==
    [r EXCEPT !.events = Append(@, Event(IF raises THEN "refresh_raised"
                                                   ELSE "refreshed", sport, 0)),
              !.k = IF r.k < Len(r.order) THEN r.k + 1 ELSE 1,
              !.pc = IF r.k < Len(r.order) THEN "refresh" ELSE "notify"]

\* parlay_service.py lines 112-113 under lines 72-84 of _refresh_and_notify: one
\* refresh_parlays(sport) returned or raised
Refreshed(r, sport, raises) ==
    IF raises
    THEN [r EXCEPT !.events = Append(@, Event("refresh_raised", sport, 0)),
                   !.pc = "done", !.outcome = "returned"]
    ELSE [r EXCEPT !.events = Append(@, Event("refreshed", sport, 0)),
                   !.k = IF r.k < Len(r.order) THEN r.k + 1 ELSE 1,
                   !.pc = IF r.k < Len(r.order) THEN "refresh" ELSE "notify"]

\* lines 92-106 under lines 79-84: get_parlays(sport, GOAT) returned the
\* responses or raised
Notified(r, sport, raises, goat_parlays) ==
    IF raises
    THEN [r EXCEPT !.events = Append(@, Event("get_parlays_raised", sport, 0)),
                   !.pc = "done", !.outcome = "returned"]
    ELSE [r EXCEPT !.events = @ \o Notifications(sport, goat_parlays),
                   !.k = IF r.k < Len(r.order) THEN r.k + 1 ELSE r.k,
                   !.pc = IF r.k < Len(r.order) THEN "notify" ELSE "done",
                   !.outcome = IF r.k < Len(r.order) THEN None ELSE "returned"]

InitScheduler ==
    /\ sched = [is_running |-> FALSE, calls |-> <<>>,
                last |-> [op |-> None, result |-> None, changed |-> FALSE]]
    /\ run = IdleRun
    /\ fetch = <<>> /\ calc = <<>>
    /\ props = <<>> /\ tierArg = None /\ pc = "off" /\ tiersLeft = <<>>
    /\ curTier = None /\ eligible = <<>> /\ i = 0 /\ attempt = 0
    /\ genResult = <<>> /\ parlays = <<>> /\ allParlays = <<>> /\ genCalls = 0
    /\ firstOk = 0 /\ lastSelected = 0 /\ tierDone = <<>>
    /\ fTarget = 0 /\ fPool = <<>> /\ fMaxLegs = 0 /\ fSorted = <<>> /\ fPc = "off"
    /\ fNumLegs = 0 /\ fCombo = <<>> /\ fBestDiff = <<>> /\ fBest = <<>>
    /\ fEnumerated = 0
    /\ cache = <<>> /\ lastRefresh = <<>> /\ stats = <<>> /\ procs = <<>>
    /\ returned = <<>> /\ nextGen = 0 /\ genLog = <<>>
    /\ completed = <<>> /\ refreshed = <<>>

\* the calls on the scheduler are capped to keep the model finite
MayCall == Len(sched.calls) < MaxSchedulerCalls

Start ==
    /\ MayCall
    /\ \E failing \in StartFailures : sched' = StartOf(sched, failing)
    /\ UNCHANGED <<builderVars, searchVars, serviceVars, fetch, calc, run>>

Stop ==
    /\ MayCall
    /\ \E raises \in BOOLEAN : sched' = StopOf(sched, raises)
    /\ UNCHANGED <<builderVars, searchVars, serviceVars, fetch, calc, run>>

TriggerManualRefresh ==
    /\ MayCall
    /\ \E raises \in BOOLEAN : sched' = TriggerOf(sched, raises)
    /\ UNCHANGED <<builderVars, searchVars, serviceVars, fetch, calc, run>>

\* the started scheduler runs a job of _refresh_and_notify
RunRefreshAndNotify ==
    /\ sched.is_running
    /\ run.pc \in {"idle", "done"}
    /\ run.runs < MaxRuns
    /\ \E order \in SportOrders :
          run' = [pc |-> "refresh", order |-> order, k |-> 1, events |-> <<>>,
                  outcome |-> None, runs |-> run.runs + 1]
    /\ UNCHANGED <<builderVars, searchVars, serviceVars, fetch, calc, sched>>

RefreshNextSport ==
    /\ run.pc = "refresh"
    /\ \E raises \in BOOLEAN : run' = Refreshed(run, run.order[run.k], raises)
    /\ UNCHANGED <<builderVars, searchVars, serviceVars, fetch, calc, sched>>

NotifyNextSport ==
    /\ run.pc = "notify"
    /\ \E raises \in BOOLEAN, goat_parlays \in ResponseLists :
          run' = Notified(run, run.order[run.k], raises, goat_parlays)
    /\ UNCHANGED <<builderVars, searchVars, serviceVars, fetch, calc, sched>>

NextScheduler ==
    \/ Start
    \/ Stop
    \/ TriggerManualRefresh
    \/ RunRefreshAndNotify
    \/ RefreshNextSport
    \/ NotifyNextSport

SpecScheduler == InitScheduler /\ [][NextScheduler]_vars

(***************************************************************************)
(* Claims about ParlayBuilder                                              *)
(***************************************************************************)
SeqRange(q) == {q[k] : k \in 1..Len(q)}

\* every parlay build_parlays has produced so far: returned by a call, kept for the
\* tier, or in the final list
BuiltParlays == SeqRange(genResult) \cup SeqRange(parlays) \cup SeqRange(allParlays)

LegProps(parlay) == [k \in 1..Len(parlay.legs) |-> parlay.legs[k].player_prop]

\* C1: every parlay the builder returns has no two legs with the same player_name
\* and at most 2 legs whose props share a team.
C1_NoDuplicatePlayerMaxTwoPerTeam ==
    \A p \in BuiltParlays :
        /\ \A a, b \in 1..Len(p.legs) :
              a # b => p.legs[a].player_prop.player_name # p.legs[b].player_prop.player_name
        /\ \A a \in 1..Len(p.legs) : CountTeam(LegProps(p), p.legs[a].player_prop.team) <= 2

\* C1 witness: build_parlays returned a parlay that passed over an eligible prop of
\* higher confidence than one of its legs, because of a repeated player or a full team.
C1_Witness ==
    /\ pc = "done"
    /\ \E p \in SeqRange(allParlays) : \E q \in SeqRange(props) :
          /\ q.confidence_score >= tier_requirements(p.tier).min_confidence
          /\ q \notin SeqRange(LegProps(p))
          /\ q.confidence_score > p.legs[Len(p.legs)].confidence
          /\ \E r \in SeqRange(props) :
                /\ r.team = q.team /\ r.player_name # q.player_name
                /\ Cardinality({k \in 1..Len(p.legs) : p.legs[k].player_prop.team = q.team}) = 2
          /\ \E q2 \in SeqRange(props) :
                /\ q2 \notin SeqRange(LegProps(p))
                /\ HasPlayer(LegProps(p), q2.player_name)

\* C2: every parlay of a tier has between 5 and the tier's max_legs legs (6, 7, 8), and
\* an attempt that selected fewer than 5 props returns no parlay.
C2_LegCountWithinTierRange ==
    /\ \A p \in BuiltParlays :
          /\ Len(p.legs) >= 5
          /\ Len(p.legs) <= (CASE p.tier = "FREE" -> 6 [] p.tier = "PREMIUM" -> 7 [] OTHER -> 8)
    /\ (pc = "returned" /\ genResult # <<>>) =>
          (lastSelected >= 5 /\ Len(genResult[1].legs) = lastSelected)
    /\ (pc \in {"attempt", "returned"} /\ attempt > 0 /\ lastSelected < 5) => genResult = <<>>

\* C2 witness: a returned FREE parlay has exactly 6 legs although a seventh prop could
\* have been selected.
C2_Witness ==
    /\ pc = "done"
    /\ \E p \in SeqRange(allParlays) :
          /\ p.tier = "FREE" /\ Len(p.legs) = 6
          /\ Len(select_parlay_props(EligibleProps(props, tier_requirements("FREE")), 7,
                                     tier_requirements("FREE"))) = 7

ConfidenceFloor(tier) == CASE tier = "FREE" -> 45 [] tier = "PREMIUM" -> 55 [] OTHER -> 65

TargetPayout(tier) == CASE tier = "FREE" -> 10 [] tier = "PREMIUM" -> 25 [] OTHER -> 50

\* C3: a parlay is returned only if the mean of its legs' confidences is at least the
\* tier's min_confidence and its expected_payout is at least 0.8 times the tier's
\* target_payout, and it is the parlay of the first attempt of the call that met both.
C3_ReturnedMeetsThresholdsFirstAttempt ==
    /\ \A p \in BuiltParlays :
          /\ SumConfidence(p.legs) >= ConfidenceFloor(p.tier) * Len(p.legs)
          /\ 10 * p.expected_payout[1] >= 8 * TargetPayout(p.tier) * p.expected_payout[2]
          /\ p.expected_payout = odds_to_payout_multiplier(p.total_odds)
    /\ (pc = "returned" /\ genResult # <<>>) => (firstOk = attempt /\ firstOk >= 1)
    /\ (pc = "returned" /\ genResult = <<>>) => firstOk = 0
    /\ pc = "attempt" => firstOk = 0

\* C3 witness: a call returned a parlay built by a later attempt than its first.
C3_Witness ==
    /\ pc = "returned" /\ genResult # <<>> /\ attempt > 1
    /\ lastSelected > 5

\* C5: with fewer than 5 eligible props _build_tier_parlays returns the empty list, and
\* _generate_single_parlay returns None when all 50 attempts have failed and only then;
\* neither case raises.
C5_NoParlayIsAValueNotAnException ==
    /\ \A k \in 1..Len(tierDone) : tierDone[k].eligible < 5 => tierDone[k].result = <<>>
    /\ pc \in {"loop", "attempt", "returned", "raised"} => Len(eligible) >= 5
    /\ (pc = "returned" /\ genResult = <<>>) => (attempt = 50 /\ firstOk = 0)
    /\ (pc = "attempt" /\ attempt = 50) => (firstOk = 0 /\ genResult = <<>>)
    /\ pc = "raised" =>
          (lastSelected >= 5 /\ \E k \in 1..Len(eligible) :
                eligible[k].over_odds = 0 \/ eligible[k].under_odds = 0)

\* C5 witness: one build_parlays run in which a tier had fewer than 5 eligible props
\* and another tier's calls all ran out of attempts.
C5_Witness ==
    /\ pc = "done"
    /\ \E k \in 1..Len(tierDone) : tierDone[k].eligible < 5 /\ tierDone[k].result = <<>>
    /\ \E k \in 1..Len(tierDone) : tierDone[k].eligible >= 5 /\ tierDone[k].result = <<>>
    /\ attempt = 50

\* calls of _generate_single_parlay a build_parlays run may have made when tier t runs
CallBudget(t) ==
    CASE tierArg # None -> 0
      [] t = "FREE" -> 0
      [] t = "PREMIUM" -> 5
      [] OTHER -> 10

Terminated == pc \in {"done", "raised"}

ParlaysPerTier(t) == IF t = "GOAT" THEN 3 ELSE 5

ParlaysMaxLegs(t) == CASE t = "FREE" -> 6 [] t = "PREMIUM" -> 7 [] OTHER -> 8

\* steps build_parlays can still take: each tier costs at most its filter step, its
\* return, and per call the call, 50 attempts, the loop's end and the duplicate test
StepsLeft ==
    LET rest == 300 * Len(tiersLeft) + 1
        later == 53 * (ParlaysPerTier(curTier) - i - 1)
    IN CASE pc = "start" -> 1000
         [] pc = "tier" -> rest
         [] pc = "loop" -> rest + 1 + later + 53
         [] pc = "attempt" -> rest + 1 + later + 52 - attempt
         [] pc = "returned" -> rest + 1 + later + 1
         [] OTHER -> 0

\* build_parlays has ended or its next step is defined: in particular random.randint
\* is never asked for a number of legs from an empty range
CanStep ==
    \/ Terminated
    \/ pc \in {"start", "tier", "loop", "returned"}
    \/ pc = "attempt" /\ attempt >= 50
    \/ pc = "attempt" /\ MinLegs..Min2(ParlaysMaxLegs(curTier), Len(eligible)) # {}

RECURSIVE Binomial(_, _)
Binomial(n, r) ==
    IF r = 0 THEN 1
    ELSE IF n < r THEN 0
    ELSE Binomial(n - 1, r - 1) + Binomial(n - 1, r)

\* every r-subset of 1..n as an increasing index tuple
RECURSIVE Combos(_, _)
Combos(n, r) ==
    IF r = 0 THEN {<<>>}
    ELSE IF n < r THEN {}
    ELSE Combos(n - 1, r) \cup {Append(c, n) : c \in Combos(n - 1, r - 1)}

SearchTop == Min2(TopN, Len(fSorted))

\* every subset of size 2..max_legs of the 20 highest-confidence props
CandidateSubsets == UNION {Combos(SearchTop, r) : r \in 2..fMaxLegs}

SubsetDiff(c) == RatAbsDiff(CombinedDecimal(ComboOdds(fSorted, c)), american_to_decimal(fTarget))

WithinTenPercent(c) ==
    RatLess(SubsetDiff(c), RatMul(american_to_decimal(fTarget), <<1, 10>>))

FullyEnumerated == \A r \in 2..fMaxLegs : fEnumerated[r] = Binomial(SearchTop, r)

\* C7: for a pool of at least 2 props, when find_parlay_combination returns,
\* either the returned subset's combined decimal odds are within 10% of the
\* target decimal, or every subset of each size 2..max_legs of the top-20
\* pool was enumerated.
C7_Within10PercentOrExhausted ==
    (fPc = "done" /\ Len(fPool) >= 2) =>
        \/ fBest # <<>> /\ WithinTenPercent(fBest)
        \/ FullyEnumerated

C7_Witness ==
    /\ fPc = "done" /\ Len(fPool) >= 2
    /\ fBest # <<>> /\ WithinTenPercent(fBest)
    /\ ~FullyEnumerated

\* the order in which the subsets are enumerated: by size, then lexicographic
EnumeratedBefore(c, d) ==
    \/ Len(c) < Len(d)
    \/ /\ Len(c) = Len(d)
       /\ \E k \in 1..Len(c) : c[k] < d[k] /\ \A j \in 1..(k - 1) : c[j] = d[j]

IsTopSubset(c) ==
    /\ Len(c) \in 2..fMaxLegs
    /\ \A k \in 1..Len(c) : c[k] \in 1..SearchTop
    /\ \A k \in 1..(Len(c) - 1) : c[k] < c[k + 1]

\* C8 as stated, for a call that searches at least one subset size: the
\* subset returned has size 2..max_legs, is drawn from the 20
\* highest-confidence props, and is the closest to the target among all such
\* subsets.
C8_ReturnsClosestSubset ==
    (fPc = "done" /\ CandidateSubsets # {}) =>
        /\ IsTopSubset(fBest)
        /\ \A c \in CandidateSubsets : RatLeq(SubsetDiff(fBest), SubsetDiff(c))

\* C8 (amended): when no subset size is searched (max_legs < 2 or fewer than 2
\* props) the result is empty; otherwise it is a subset of size 2..max_legs of
\* the 20 highest-confidence props which is the first enumerated subset within
\* 10% of the target, or, when no subset is within 10%, the first of the
\* closest among all such subsets.
C8_ReturnsFirstCloseElseClosest ==
    fPc = "done" =>
        IF CandidateSubsets = {} THEN fBest = <<>>
        ELSE /\ IsTopSubset(fBest)
             /\ IF \E c \in CandidateSubsets : WithinTenPercent(c)
                THEN /\ WithinTenPercent(fBest)
                     /\ \A c \in CandidateSubsets :
                            WithinTenPercent(c) => ~EnumeratedBefore(c, fBest)
                ELSE \A c \in CandidateSubsets :
                        /\ RatLeq(SubsetDiff(fBest), SubsetDiff(c))
                        /\ SubsetDiff(c) = SubsetDiff(fBest) => ~EnumeratedBefore(c, fBest)

C8_Witness ==
    /\ fPc = "done"
    /\ fBest # <<>> /\ WithinTenPercent(fBest)
    /\ \E c \in CandidateSubsets : RatLess(SubsetDiff(c), SubsetDiff(fBest))


(***************************************************************************)
(* Claims about ParlayService                                              *)
(***************************************************************************)
ReturnedParlays == {returned.responses[k].parlay : k \in 1..Len(returned.responses)}

\* overall_confidence (a sum of leg confidences over the number of legs) >= floor
ConfidenceAtLeast(parlay, floor) ==
    parlay.overall_confidence[1] >= floor * parlay.overall_confidence[2]

\* C4: every parlay get_parlays returns for tier FREE has overall_confidence >= 70,
\* for tier PREMIUM >= 80 and for tier GOAT >= 95.
C4_TierConfidenceFloors ==
    (returned.op = "get" /\ returned.kind \in {"hit", "miss"}) =>
        \A parlay \in ReturnedParlays :
            /\ returned.tier = "FREE" => ConfidenceAtLeast(parlay, 70)
            /\ returned.tier = "PREMIUM" => ConfidenceAtLeast(parlay, 80)
            /\ returned.tier = "GOAT" => ConfidenceAtLeast(parlay, 95)

\* C9: after any generation for a sport and tier, by a get_parlays miss or by a
\* refresh, the cache entry of that key holds the list generated last, until the
\* entry is invalidated by the start of a refresh or by the daily cleanup.
C9_CacheHoldsLatestGeneration ==
    \A key \in DOMAIN genLog : key \in DOMAIN cache /\ cache[key] = genLog[key]

SportKeys(sport) == {CacheKey(sport, tier) : tier \in TierSet \cup {None}}

\* the id of the refresh call of the sport that wrote last, 0 when none has
LastWrote(sport) ==
    LET wrote == {k \in 1..Len(completed) :
                     /\ completed[k].op = "refresh"
                     /\ completed[k].sport = sport
                     /\ completed[k].kind = "wrote"}
    IN IF wrote = {} THEN 0
       ELSE completed[CHOOSE k \in wrote : \A j \in wrote : j <= k].id

\* every entry of the sport comes from the refresh call that wrote last
LastWriterWins ==
    \A sport \in Sports :
        (\E key \in DOMAIN cache : key[1] = sport) =>
            /\ LastWrote(sport) # 0
            /\ \A key \in SportKeys(sport) :
                  /\ key \in DOMAIN cache
                  /\ \A k \in 1..Len(cache[key]) : cache[key][k].id[1] = LastWrote(sport)
                  /\ key[2] # "all" =>
                        cache[key] = OfTier(cache[CacheKey(sport, None)], key[2])

\* this step is taken by the refresh call id
RefreshActs(id) ==
    /\ id \in DOMAIN procs
    /\ procs[id].op = "refresh"
    /\ (id \notin DOMAIN procs' \/ procs'[id] # procs[id])

\* C10 as stated: two interleaved refreshes of a sport leave every key of the
\* sport with the lists of the call that wrote last, never a mixture, and the
\* steps of a refresh leave the stats counters as they are.
C10_LastWriterWinsNoOtherChange ==
    [][/\ LastWriterWins'
       /\ \A id \in 1..MaxCalls : RefreshActs(id) => stats' = stats]_vars

\* C10 (amended): two interleaved refreshes of a sport leave every key of the
\* sport with the lists of the call that wrote last, never a mixture; the steps
\* of a refresh change nothing of the service but the cache entries of its
\* sport, last_refresh of its sport, and stats.total_parlays_generated, which
\* grows by the number of parlays generated.
C10_LastWriterWinsFrame ==
    [][/\ LastWriterWins'
       /\ \A id \in 1..MaxCalls : RefreshActs(id) =>
            LET sport == procs[id].sport
                wrote == id \notin DOMAIN procs' /\ returned'.kind = "wrote"
            IN /\ \A key \in DOMAIN cache \cup DOMAIN cache' :
                     key[1] # sport =>
                        /\ key \in DOMAIN cache /\ key \in DOMAIN cache'
                        /\ cache'[key] = cache[key]
               /\ \A s \in DOMAIN lastRefresh \cup DOMAIN lastRefresh' :
                     s # sport =>
                        /\ s \in DOMAIN lastRefresh /\ s \in DOMAIN lastRefresh'
                        /\ lastRefresh'[s] = lastRefresh[s]
               /\ ~wrote => UNCHANGED <<cache, lastRefresh, stats>>
               /\ wrote => stats' = [stats EXCEPT !.total_parlays_generated =
                                        @ + Len(cache'[CacheKey(sport, None)])]]_vars

C10_Witness ==
    /\ Len(completed) = 2
    /\ completed[1].id = 2 /\ completed[2].id = 1
    /\ completed[1].op = "refresh" /\ completed[2].op = "refresh"
    /\ completed[1].sport = completed[2].sport
    /\ completed[1].kind = "wrote" /\ completed[2].kind = "wrote"
    /\ CacheKey(completed[1].sport, None) \in DOMAIN cache
    /\ cache[CacheKey(completed[1].sport, None)] # <<>>
    /\ stats.total_parlays_generated > 0


\* this step starts a get_parlays(sport, tier) call
GetStarts(sport, tier) ==
    /\ nextGen' = nextGen + 1
    /\ \/ /\ nextGen' \in DOMAIN procs'
          /\ procs'[nextGen'].op = "get"
          /\ procs'[nextGen'].sport = sport /\ procs'[nextGen'].tier = tier
       \/ /\ nextGen' \notin DOMAIN procs'
          /\ returned'.id = nextGen' /\ returned'.op = "get"
          /\ returned'.sport = sport /\ returned'.tier = tier

\* C11: a get_parlays(sport, tier) made after a refresh of the sport has stored
\* its lists, with no refresh started and no cleanup run since, is answered in
\* that very step from the cache: no provider fetch is left pending, the
\* responses are those of exactly the parlays the refresh stored under the key
\* (those of the tier when a tier is given), and the cache is unchanged.
C11_ServedFromCacheAfterRefresh ==
    [][\A sport \in DOMAIN refreshed : \A tier \in TierSet \cup {None} :
          GetStarts(sport, tier) =>
             /\ nextGen' \notin DOMAIN procs'
             /\ procs' = procs
             /\ returned'.kind = "hit"
             /\ returned'.responses =
                   [k \in 1..Len(IF tier = None THEN refreshed[sport]
                                 ELSE SelectSeq(refreshed[sport], LAMBDA q : q.tier = tier))
                    |-> [parlay |-> (IF tier = None THEN refreshed[sport]
                                     ELSE SelectSeq(refreshed[sport],
                                                    LAMBDA q : q.tier = tier))[k]]]
             /\ cache' = cache]_vars

C11_Witness ==
    /\ returned.op = "get" /\ returned.kind = "hit"
    /\ returned.sport \in DOMAIN refreshed
    /\ returned.tier # None
    /\ returned.responses # <<>>
    /\ Len(returned.responses) < Len(refreshed[returned.sport])


(***************************************************************************)
(* Claims about the provider fetches                                       *)
(***************************************************************************)
\* C12: a fetch never ends by raising and makes at most one request; after a
\* non-200 response or an exception SportsDataService returns the mock dataset
\* and OddsJamService and FanDuelService return the empty list.
C12_FetchFailureDegrades ==
    /\ fetch.pc # "raised"
    /\ fetch.requests <= 1
    /\ (fetch.pc = "done" /\ fetch.failed) =>
          fetch.result = (IF fetch.provider = "sportsdata"
                          THEN MockDataset(fetch.sport) ELSE <<>>)

C12_Witness ==
    /\ fetch.pc = "done" /\ fetch.failed /\ fetch.requests = 1
    /\ fetch.status = 500
    /\ fetch.provider = "sportsdata"
    /\ fetch.result # <<>>


(***************************************************************************)
(* Claims about the functions that keep no state                           *)
(***************************************************************************)
ValidPropType(prop_data) ==
    prop_data.prop_type \in {"hits", "HITS", "home_runs"}

\* the PlayerProps of the dictionaries of a valid prop type, in their order
ValidConverted(sports_data_raw) ==
    LET valid == SelectSeq(sports_data_raw, ValidPropType)
    IN [k \in 1..Len(valid) |->
          [player_name |-> valid[k].player_name, team |-> valid[k].team,
           prop_type |-> IF valid[k].prop_type = "HITS" THEN "hits"
                         ELSE valid[k].prop_type,
           over_odds |-> valid[k].over_odds, under_odds |-> valid[k].under_odds,
           confidence_score |-> 75, hit_rate |-> 55]]

\* C13: the conversion of a batch never raises for a dictionary whose prop_type
\* string is not a PropType value and logs nothing about it; the props handed
\* on to scoring and parlay building are the PlayerProps of all the other
\* dictionaries of the batch, in order, before the FanDuel and OddsJam props.
C13_InvalidPropTypeDropped ==
    (calc # <<>> /\ calc.fn = "convert" /\ calc.pc = "done") =>
       /\ ~calc.outcome.raised
       /\ calc.outcome.all_props =
             ValidConverted(calc.args.sports_data_raw)
                \o calc.args.fanduel_props \o calc.args.oddsjam_props
       /\ Len(calc.outcome.log) = 1
       /\ calc.outcome.log[1].level = "info"
       /\ calc.outcome.log[1].counts[1] = Len(ValidConverted(calc.args.sports_data_raw))

C13_Witness ==
    /\ calc # <<>> /\ calc.fn = "convert" /\ calc.pc = "done"
    /\ Len(calc.args.sports_data_raw) = 3
    /\ calc.args.sports_data_raw[1].prop_type = "bogus"
    /\ calc.args.sports_data_raw[2].prop_type = "HITS"
    /\ calc.args.sports_data_raw[3].prop_type = ""
    /\ Len(calc.outcome.all_props) = 1


\* hit_rate * 100 + (recent_form_weight - 0.5) * 40 in units of 1 / (2 * den),
\* for a hit rate and a form weight of the same denominator den
TwiceScore(historical_hit_rate, recent_form_weight) ==
    200 * historical_hit_rate[1] + 80 * recent_form_weight[1]
       - 40 * historical_hit_rate[2]

\* C19: for a hit rate and a form weight in [0, 1] the score is in [0, 100] and
\* is hit_rate * 100 + (recent_form_weight - 0.5) * 40 clamped to [0, 100].
C19_ConfidenceClamped ==
    (calc # <<>> /\ calc.fn = "calculate_confidence_score" /\ calc.pc = "done") =>
       LET score == calc.outcome
           twice == TwiceScore(calc.args.historical_hit_rate,
                               calc.args.recent_form_weight)
           units == 2 * calc.args.historical_hit_rate[2]
       IN /\ score[2] > 0
          /\ 0 <= score[1] /\ score[1] <= 100 * score[2]
          /\ twice > 100 * units => score[1] = 100 * score[2]
          /\ twice < 0 => score[1] = 0
          /\ (0 <= twice /\ twice <= 100 * units) =>
                score[1] * units = twice * score[2]

C19_Witness ==
    /\ calc # <<>> /\ calc.fn = "calculate_confidence_score" /\ calc.pc = "done"
    /\ calc.args.historical_hit_rate = <<RateSteps, RateSteps>>
    /\ calc.args.recent_form_weight = <<RateSteps, RateSteps>>
    /\ calc.outcome = <<100, 1>>
(***************************************************************************)
(* Claims about odds_math.py                                               *)
(***************************************************************************)
Done(fn) == calc # <<>> /\ calc.fn = fn /\ calc.pc = "done"

\* C14: american_to_decimal(0) fails with ValueError.
C14_ZeroOddsValueError ==
    (Done("american_to_decimal") /\ calc.args = 0) =>
       calc.outcome.kind = "raises" /\ calc.outcome.error = "ValueError"

\* C15: decimal_to_american(1.0) fails with DomainError, never with an
\* unguarded division by zero and never with a value.
C15_DecimalOneDomainError ==
    (Done("decimal_to_american") /\ FloatEq[calc.args, FloatOfInt[1]]) =>
       calc.outcome.kind = "raises" /\ calc.outcome.error = "DomainError"

\* C16: calculate_parlay_odds([]) fails with ValueError.
C16_EmptyListValueError ==
    (Done("calculate_parlay_odds") /\ calc.args = <<>>) =>
       calc.outcome.kind = "raises" /\ calc.outcome.error = "ValueError"

\* odds whose decimal equivalent is within 0.1 of 1.0
NearOne(american_odds) == american_odds < -1000

\* a round trip: decimal_to_american has returned for the decimal odds that
\* american_to_decimal returned for calc.origin
RoundTripDone ==
    /\ Done("decimal_to_american") /\ calc.origin # 0
    /\ ~NearOne(calc.origin)

\* C17 as stated: the round trip recovers the odds within plus or minus 1.
C17_RoundTripWithinOne ==
    RoundTripDone =>
       /\ calc.outcome.kind = "returns"
       /\ Abs(calc.outcome.value - calc.origin) <= 1

\* C17: the round trip of odds o >= 100 or o <= -101 returns o or the integer
\* next to o toward zero; of -100 it returns +100; of 0 < |o| < 100 it returns
\* the same price with the other sign, -10000 / o, within 1.
C17_RoundTripSamePrice ==
    RoundTripDone =>
       /\ calc.outcome.kind = "returns"
       /\ calc.origin >= 100 =>
             calc.outcome.value \in {calc.origin, calc.origin - 1}
       /\ calc.origin < -100 =>
             calc.outcome.value \in {calc.origin, calc.origin + 1}
       /\ calc.origin = -100 => calc.outcome.value = 100
       /\ (0 < calc.origin /\ calc.origin < 100) =>
             Abs(calc.outcome.value + 10000 \div calc.origin) <= 1
       /\ (-100 < calc.origin /\ calc.origin < 0) =>
             Abs(calc.outcome.value - 10000 \div (-calc.origin)) <= 1

C17_Witness ==
    /\ RoundTripDone
    /\ calc.origin = 115
    /\ calc.outcome.value = 114

PermutedBy(individual_odds, order) ==
    [k \in 1..Len(individual_odds) |-> individual_odds[order[k]]]

\* C18: calculate_parlay_odds returns the same for every permutation of a
\* non-empty list.
C18_OrderIndependent ==
    (Done("calculate_parlay_odds") /\ calc.args # <<>>) =>
       \A order \in Permutations(1..Len(calc.args)) :
          calculate_parlay_odds(PermutedBy(calc.args, order)) = calc.outcome

\* C20: estimate_prop_odds returns a value from -500 to +2000.
C20_EstimateWithinBounds ==
    Done("estimate_prop_odds") =>
       /\ calc.outcome.kind = "returns"
       /\ calc.outcome.value >= -500
       /\ calc.outcome.value <= 2000

C20_Witness ==
    /\ Done("estimate_prop_odds")
    /\ calc.args.prop_type = "hits"
    /\ calc.args.line = <<100000, 1>>
    /\ calc.outcome.value = 2000

\* the hit rate of the call, in tenths
HitRateTenths == calc.args.hit_rate[1]

\* what lines 122-129 added to base_odds
Adjustment == calc.locals.adjusted - calc.locals.base_odds

\* C21 as stated: for a hit rate in [0, 1], above 0.8 at most 100 is subtracted,
\* below 0.6 at most 320 is added, and from 0.6 to 0.8 the base odds are unchanged.
C21_AdjustmentAtMost320 ==
    Done("estimate_prop_odds") =>
       /\ HitRateTenths > 8 => (-100 <= Adjustment /\ Adjustment <= 0)
       /\ HitRateTenths < 6 => (0 <= Adjustment /\ Adjustment <= 320)
       /\ HitRateTenths \in 6..8 => Adjustment = 0

\* C21: for a hit rate in [0, 1], above 0.8 at most 100 is subtracted, below
\* 0.6 at most 480 is added, and from 0.6 to 0.8 the base odds are unchanged.
C21_AdjustmentAtMost480 ==
    Done("estimate_prop_odds") =>
       /\ HitRateTenths > 8 => (-100 <= Adjustment /\ Adjustment <= 0)
       /\ HitRateTenths < 6 => (0 <= Adjustment /\ Adjustment <= 480)
       /\ HitRateTenths \in 6..8 => Adjustment = 0

C21_Witness ==
    /\ Done("estimate_prop_odds")
    /\ HitRateTenths = 0
    /\ calc.args.prop_type = "home_runs"
    /\ calc.locals.base_odds = 240
    /\ Adjustment = 480

\* a list of leg odds none of which is 0
NonZeroOdds(leg_odds) == \A k \in 1..Len(leg_odds) : leg_odds[k] # 0

\* C22: for every non-empty list of non-zero leg odds, _calculate_total_odds
\* returns what calculate_parlay_odds returns, the American odds of the
\* product of the legs' decimal odds.
C22_TotalOddsAsParlayOdds ==
    (Done("calculate_total_odds") /\ calc.args # <<>> /\ NonZeroOdds(calc.args)) =>
       /\ calc.outcome.kind = "returns"
       /\ calc.outcome = calculate_parlay_odds(calc.args)
       /\ calc.outcome = decimal_to_american(CombinedFrom[FloatOfInt[1], calc.args])

C22_Witness ==
    /\ Done("calculate_total_odds")
    /\ calc.args = <<-400, -125, -375>>
    /\ calc.outcome = Returns(184)

(***************************************************************************)
(* Claims about PropAnalyzer                                               *)
(***************************************************************************)
\* the rows of the call's frame of a prop type inside the window, of one
\* player or of every player
RowsInWindow(players) ==
    {k \in 1..Len(calc.args.historical_data.rows) :
        /\ calc.args.historical_data.rows[k].player_name \in players
        /\ calc.args.historical_data.rows[k].prop_type = calc.args.prop_type
        /\ calc.args.historical_data.rows[k].age <= calc.args.days_back}

HitsAmong(S) ==
    Cardinality({k \in S : calc.args.historical_data.rows[k].hit = 1})

\* the rate r is the share of hits among the rows S
IsShareOfHits(r, S) == r[1] * Cardinality(S) = HitsAmong(S) * r[2]

\* C23: get_player_hit_rate returns a value in [0, 1]: the player's share of
\* hits for the prop type in the window when the player has rows there, else
\* the share of hits of every player's rows of the prop type in the window,
\* else 0.5 (also with no data at all).
C23_HitRateFallbackChain ==
    Done("get_player_hit_rate") =>
       LET own == RowsInWindow({calc.args.player_name})
           all == RowsInWindow({"P1", "P2"})
           r == calc.outcome
       IN /\ r[2] > 0 /\ 0 <= r[1] /\ r[1] <= r[2]
          /\ own # {} => IsShareOfHits(r, own)
          /\ (own = {} /\ all # {}) => IsShareOfHits(r, all)
          /\ all = {} => r = <<1, 2>>

\* the player has no row in the window, others have a hit and a miss there
C23_Witness ==
    /\ Done("get_player_hit_rate")
    /\ Len(calc.args.historical_data.rows) = 3
    /\ calc.args.historical_data.rows[1] =
          [player_name |-> "P1", prop_type |-> "hits", age |-> 40, hit |-> 1]
    /\ calc.args.historical_data.rows[2] =
          [player_name |-> "P2", prop_type |-> "hits", age |-> 10, hit |-> 0]
    /\ calc.args.historical_data.rows[3] =
          [player_name |-> "P2", prop_type |-> "hits", age |-> 10, hit |-> 1]
    /\ calc.outcome = <<1, 2>>

\* f[1] + ... + f[n]
RECURSIVE SumTo(_, _)
SumTo(f, n) == IF n = 0 THEN 0 ELSE f[n] + SumTo(f, n - 1)

\* the rows of the player and prop type of the call, whatever their age
GamesOfPlayer ==
    {calc.args.historical_data.rows[k] :
        k \in {j \in 1..Len(calc.args.historical_data.rows) :
                 /\ calc.args.historical_data.rows[j].player_name = calc.args.player_name
                 /\ calc.args.historical_data.rows[j].prop_type = calc.args.prop_type}}

\* the games used are the min(N, available) most recent, the most recent first
UsesMostRecent(used) ==
    /\ Len(used) = Min2(calc.args.games_back, Cardinality(GamesOfPlayer))
    /\ \A k \in 1..Len(used) : used[k] \in GamesOfPlayer
    /\ \A j, k \in 1..Len(used) : j < k => used[j].age < used[k].age
    /\ \A g \in GamesOfPlayer :
          (\A k \in 1..Len(used) : used[k] # g) =>
             (\A k \in 1..Len(used) : used[k].age < g.age)

\* value is the mean of the hits of the games used under the weights
IsWeightedMean(value, used, weights) ==
    value[1] * SumTo(weights, Len(used)) =
       value[2] * SumTo([k \in 1..Len(used) |-> used[k].hit * weights[k]], Len(used))

\* C24 as stated: the most recent game weighs N and the oldest game used weighs
\* 1, for every number of available games; 0.5 when the player has no games.
C24_OldestWeighsOne ==
    Done("get_recent_form_weight") =>
       LET used == calc.outcome.recent_performance
           weights == calc.outcome.weights
       IN /\ UsesMostRecent(used)
          /\ used = <<>> => calc.outcome.value = <<1, 2>>
          /\ used # <<>> =>
                /\ weights[1] = calc.args.games_back
                /\ weights[Len(used)] = 1
                /\ IsWeightedMean(calc.outcome.value, used, weights)

\* C24: the form weight is the weighted mean of hit (1) / miss (0) over the
\* min(N, available) most recent games, the k-th most recent with weight
\* N - k + 1: the most recent weighs N and the oldest game used weighs
\* N - used + 1, which is 1 when N games are available; 0.5 with no games.
C24_WeightsFromN ==
    Done("get_recent_form_weight") =>
       LET used == calc.outcome.recent_performance
           weights == calc.outcome.weights
       IN /\ UsesMostRecent(used)
          /\ used = <<>> => calc.outcome.value = <<1, 2>>
          /\ used # <<>> =>
                /\ \A k \in 1..Len(used) : weights[k] = calc.args.games_back - k + 1
                /\ IsWeightedMean(calc.outcome.value, used, weights)

\* two games for N = 3: a hit yesterday and a miss before it give 3 / (3 + 2)
C24_Witness ==
    /\ Done("get_recent_form_weight")
    /\ calc.args.games_back = 3
    /\ Len(calc.outcome.recent_performance) = 2
    /\ calc.outcome.recent_performance[1].hit = 1
    /\ calc.outcome.recent_performance[2].hit = 0
    /\ calc.outcome.weights = <<3, 2>>
    /\ calc.outcome.value = <<3, 5>>

(***************************************************************************)
(* Claims about SchedulerService                                           *)
(***************************************************************************)
\* after the first n calls on the scheduler, the last start or shutdown that
\* returned is a start: a start() has succeeded and no stop() has since
RunningAfter(n) ==
    LET effective == {k \in 1..n : /\ ~sched.calls[k].raised
                                   /\ sched.calls[k].call \in {"start", "shutdown"}}
    IN /\ effective # {}
       /\ sched.calls[CHOOSE k \in effective : \A j \in effective : j <= k].call = "start"

StartsScheduler == {"add_job:parlay_refresh", "add_job:daily_cleanup", "start"}

\* C25: is_running is True exactly from a start() that succeeded until the
\* next stop() that succeeded; start() makes its calls on the scheduler only
\* while not running and stop() and trigger_manual_refresh only while running;
\* a start() whose scheduler raises re-raises and leaves is_running False.
C25_IsRunningFollowsStartStop ==
    sched # <<>> =>
       /\ sched.is_running = RunningAfter(Len(sched.calls))
       /\ \A k \in 1..Len(sched.calls) :
             /\ sched.calls[k].call \in StartsScheduler => ~RunningAfter(k - 1)
             /\ sched.calls[k].call = "shutdown" => RunningAfter(k - 1)
             /\ sched.calls[k].call = "add_job:manual_refresh" => RunningAfter(k - 1)
       /\ (/\ sched.last.op = "start" /\ sched.calls # <<>>
           /\ sched.calls[Len(sched.calls)].call \in StartsScheduler
           /\ sched.calls[Len(sched.calls)].raised) =>
             (sched.last.result = "raised" /\ ~sched.is_running)
       /\ (sched.last.op = "start" /\ sched.last.result = "raised") =>
             ~sched.is_running

\* a start() that succeeded, then a stop() whose shutdown raised
C25_Witness ==
    /\ sched # <<>>
    /\ Len(sched.calls) = 4
    /\ sched.calls[3] = LibraryCall("start", FALSE)
    /\ sched.calls[4] = LibraryCall("shutdown", TRUE)
    /\ sched.last.op = "stop"
    /\ sched.is_running

\* C26: in one run of _refresh_and_notify a notification is sent only after
\* every sport has been refreshed; once the refresh of a sport raises, the
\* run refreshes no further sport, sends nothing and returns normally.
C26_NotifyOnlyAfterAllRefreshed ==
    run # <<>> =>
       /\ \A k \in 1..Len(run.events) :
             run.events[k].kind = "sent" =>
                \A sport \in Sports :
                   \E j \in 1..(k - 1) : run.events[j] = Event("refreshed", sport, 0)
       /\ \A k \in 1..Len(run.events) :
             run.events[k].kind = "refresh_raised" =>
                /\ k = Len(run.events)
                /\ run.pc = "done"
                /\ \E sport \in Sports :
                      \A j \in 1..Len(run.events) :
                         run.events[j] # Event("refreshed", sport, 0)
       /\ run.pc = "done" => run.outcome = "returned"
       /\ run.outcome \in {None, "returned"}

\* the first sport was refreshed, the refresh of the second raised
C26_Witness ==
    /\ run # <<>> /\ run.pc = "done"
    /\ Len(run.events) = 2
    /\ run.events[1].kind = "refreshed"
    /\ run.events[2].kind = "refresh_raised"
    /\ run.outcome = "returned"

\* every sport refreshed, then a notification for a parlay at 97
C26_NotifiedWitness ==
    /\ run # <<>> /\ run.pc = "done"
    /\ Len(run.events) = 3
    /\ run.events[3] = Event("sent", run.order[1], NotifyConfidence)

(***************************************************************************)
(* Claims about the parlays kept by _build_tier_parlays                    *)
(***************************************************************************)
\* the lists _build_tier_parlays has built: the running one and those returned
TierLists == {parlays} \cup {tierDone[k].result : k \in 1..Len(tierDone)}

\* more than 60% of the player names of new are player names of old
SharesOverSixty(new, old) ==
    10 * Cardinality(PlayersOf(new) \cap PlayersOf(old)) > 6 * Cardinality(PlayersOf(new))

\* the call of _generate_single_parlay just handled at lines 87-88 returned a parlay
Handled == pc = "loop" /\ i > 0 /\ genResult # <<>>

Kept(parlay) == \E k \in 1..Len(parlays) : parlays[k].id = parlay.id

\* C27: in a list of _build_tier_parlays no parlay shares more than 60% of its
\* player names with a parlay before it, and a generated parlay that does so
\* with a parlay already kept is not kept.
C27_NoParlayOverlapsEarlier ==
    /\ \A list \in TierLists :
          \A j, k \in 1..Len(list) : j < k => ~SharesOverSixty(list[k], list[j])
    /\ Handled =>
          ((\E k \in 1..Len(parlays) :
               /\ parlays[k].id # genResult[1].id
               /\ SharesOverSixty(genResult[1], parlays[k]))
             <=> ~Kept(genResult[1]))

\* a parlay of 6 legs was generated after a parlay of 5 legs had been kept,
\* and was discarded
C27_Witness ==
    /\ Handled
    /\ Len(parlays) = 1
    /\ Len(parlays[1].legs) = 5
    /\ Len(genResult[1].legs) = 6
    /\ ~Kept(genResult[1])

\* the props of the legs of a are the first props of the legs of b
IsPrefix(a, b) ==
    /\ Len(a.legs) <= Len(b.legs)
    /\ \A k \in 1..Len(a.legs) : a.legs[k].player_prop = b.legs[k].player_prop

KeysHeld(sport) == {key \in DOMAIN cache : key[1] = sport}

\* C29: between any two steps of get_parlays, refresh_parlays and the daily
\* cleanup the cache holds, for each sport, either no key of the sport or the
\* "<sport>_all" key and every "<sport>_<tier>" key, each tier entry being the
\* "<sport>_all" list filtered to that tier.
C29_CacheConsistentPerSport ==
    \A sport \in Sports :
        \/ KeysHeld(sport) = {}
        \/ /\ KeysHeld(sport) = {<<sport, "all">>} \cup {<<sport, t>> : t \in TierSet}
           /\ \A t \in TierSet :
                 cache[<<sport, t>>] =
                    SelectSeq(cache[<<sport, "all">>], LAMBDA q : q.tier = t)

C29_Witness ==
    /\ \E sport \in Sports :
          /\ KeysHeld(sport) # {}
          /\ \E t \in TierSet :
                /\ cache[<<sport, t>>] # <<>>
                /\ Len(cache[<<sport, t>>]) < Len(cache[<<sport, "all">>])
          /\ \E id \in DOMAIN procs : procs[id].sport = sport /\ procs[id].pc # "sports_data"
    /\ \E sport \in Sports : KeysHeld(sport) = {}

\* this step ends the refresh_parlays call id by re-raising
RefreshRaises(id) ==
    /\ id \in DOMAIN procs /\ procs[id].op = "refresh"
    /\ id \notin DOMAIN procs'
    /\ returned'.id = id /\ returned'.op = "refresh" /\ returned'.kind = "raised"

\* the step leaves the entries of every sport but this one as they were
OtherSportsUnchanged(sport) ==
    \A key \in DOMAIN cache \cup DOMAIN cache' :
        key[1] # sport =>
            /\ key \in DOMAIN cache /\ key \in DOMAIN cache'
            /\ cache'[key] = cache[key]

\* the keys of the sport that the cache holds after the step
KeysHeldAfter(sport) == {key \in DOMAIN cache' : key[1] = sport}

\* another refresh_parlays call of the sport has stored its lists
OtherRefreshStored(id, sport) ==
    \E k \in 1..Len(completed) :
        /\ completed[k].op = "refresh" /\ completed[k].sport = sport
        /\ completed[k].kind = "wrote" /\ completed[k].id # id

\* C30 as stated: a refresh_parlays(sport) whose generation raises re-raises and
\* leaves the cache with no entry of the sport, last_refresh as it was and the
\* entries of every other sport unchanged.
C30_FailedRefreshLeavesNoEntry ==
    [][\A id \in 1..MaxCalls : RefreshRaises(id) =>
          /\ KeysHeldAfter(procs[id].sport) = {}
          /\ lastRefresh' = lastRefresh
          /\ OtherSportsUnchanged(procs[id].sport)]_vars

\* C30 (amended): a refresh_parlays(sport) whose generation raises re-raises and
\* stores nothing: the entries it deleted at its start are not restored,
\* last_refresh is as it was and the entries of every other sport are
\* unchanged; the cache then has no entry of the sport unless another
\* refresh_parlays call of the sport stored its lists after this one had
\* deleted them, and those lists stay.
C30_FailedRefreshStoresNothing ==
    [][\A id \in 1..MaxCalls : RefreshRaises(id) =>
          LET sport == procs[id].sport
          IN /\ cache' = cache
             /\ lastRefresh' = lastRefresh
             /\ OtherSportsUnchanged(sport)
             /\ KeysHeldAfter(sport) # {} =>
                   /\ OtherRefreshStored(id, sport)
                   /\ sport \in DOMAIN refreshed
                   /\ cache'[<<sport, "all">>] = refreshed[sport]
             /\ ~OtherRefreshStored(id, sport) => KeysHeldAfter(sport) = {}]_vars

C30_Witness ==
    /\ returned.op = "refresh" /\ returned.kind = "raised"
    /\ KeysHeld(returned.sport) = {}
    /\ returned.sport \notin DOMAIN lastRefresh
    /\ \E sport \in Sports \ {returned.sport} :
          /\ KeysHeld(sport) # {}
          /\ cache[<<sport, "all">>] # <<>>
          /\ sport \in DOMAIN lastRefresh
    /\ completed[Len(completed)].id = returned.id


====
